---- MODULE Spec2Model ----
(***************************************************************************)
(* A model of agent-reviews: the comment pipeline of comments.js           *)
(* (fetchAllPages, processComments, filterComments, replyToComment) and    *)
(* the watch loop of agent-reviews.js (watchForComments).                  *)
(*                                                                         *)
(* Text.  A JavaScript string is a sequence of one-character strings, so   *)
(* that startsWith / endsWith / includes and the regular expressions of    *)
(* cleanBody are computed on characters.  Null stands for the JavaScript   *)
(* values null and undefined where a string is expected.  Enumerated       *)
(* values that the code only compares for equality (comment type, review   *)
(* state, filter name) are plain TLA+ strings.                             *)
(***************************************************************************)
EXTENDS Integers, Sequences, FiniteSets, TLC

Null == <<"null">>

Falsy(s) == s = Null \/ s = <<>>

Min(S) == CHOOSE x \in S : \A y \in S : x <= y

StartsWith(s, p) == Len(s) >= Len(p) /\ SubSeq(s, 1, Len(p)) = p

EndsWith(s, p) == Len(s) >= Len(p) /\ SubSeq(s, Len(s) - Len(p) + 1, Len(s)) = p

MatchAt(s, i, p) == i >= 1 /\ i + Len(p) - 1 <= Len(s) /\ SubSeq(s, i, i + Len(p) - 1) = p

Includes(s, p) == \E i \in 1..(Len(s) - Len(p) + 1) : MatchAt(s, i, p)

\* least j >= i at which p occurs in s; 0 when there is none
FirstAt(s, i, p) ==
  LET J == {j \in i..Len(s) : MatchAt(s, j, p)}
  IN IF J = {} THEN 0 ELSE Min(J)

UpperLetters == <<"A","B","C","D","E","F","G","H","I","J","K","L","M",
                  "N","O","P","Q","R","S","T","U","V","W","X","Y","Z">>

LowerLetters == <<"a","b","c","d","e","f","g","h","i","j","k","l","m",
                  "n","o","p","q","r","s","t","u","v","w","x","y","z">>

\* the case folding of the regular expressions' i flag, on ASCII letters
Lower(c) ==
  IF \E k \in 1..Len(UpperLetters) : UpperLetters[k] = c
  THEN LowerLetters[CHOOSE k \in 1..Len(UpperLetters) : UpperLetters[k] = c]
  ELSE c

LowerText(s) == [k \in 1..Len(s) |-> Lower(s[k])]

\* p is given in lower case
MatchAtCI(s, i, p) ==
  i >= 1 /\ i + Len(p) - 1 <= Len(s) /\ LowerText(SubSeq(s, i, i + Len(p) - 1)) = p

FirstAtCI(s, i, p) ==
  LET J == {j \in i..Len(s) : MatchAtCI(s, j, p)}
  IN IF J = {} THEN 0 ELSE Min(J)

\* the characters the regular expressions' \s and String.prototype.trim strip
WhiteSpace == {" ", "\t", "\n", "\r", "\f"}

\* first position >= i of s that holds no white space (Len(s) + 1 at the end)
SkipSpace(s, i) ==
  LET J == {j \in i..Len(s) : s[j] \notin WhiteSpace}
  IN IF J = {} THEN Len(s) + 1 ELSE Min(J)

----------------------------------------------------------------------------
(* The literals of comments.js *)

HtmlOpen == <<"<","!","-","-">>
HtmlClose == <<"-","-",">">>
DetailsOpen == <<"<","d","e","t","a","i","l","s",">">>
SummaryOpen == <<"<","s","u","m","m","a","r","y",">">>
AdditionalLocations ==
  <<"a","d","d","i","t","i","o","n","a","l"," ","l","o","c","a","t","i","o","n","s">>
DetailsClose == <<"<","/","d","e","t","a","i","l","s",">">>
POpen == <<"<","p",">">>
AOpen == <<"<","a"," ">>
CursorCom == <<"c","u","r","s","o","r",".","c","o","m">>
PClose == <<"<","/","p",">">>

VercelBot == <<"v","e","r","c","e","l","[","b","o","t","]">>
VcPrefix == <<"[","v","c","]",":">>
SupabaseBot == <<"s","u","p","a","b","a","s","e","[","b","o","t","]">>
SupaPrefix == <<"[","s","u","p","a","]",":">>
CursorBot == <<"c","u","r","s","o","r","[","b","o","t","]">>
CursorSummary ==
  <<"C","u","r","s","o","r"," ","B","u","g","b","o","t"," ","h","a","s"," ",
    "r","e","v","i","e","w","e","d"," ","y","o","u","r"," ",
    "c","h","a","n","g","e","s">>

BotSuffix == <<"[","b","o","t","]">>
Copilot == <<"C","o","p","i","l","o","t">>
BotWord == <<"b","o","t">>
GithubActions == <<"g","i","t","h","u","b","-","a","c","t","i","o","n","s">>

\* each default filter is (user, body) => user === U && body.startsWith(P)
DEFAULT_META_FILTERS ==
  << [user |-> VercelBot, prefix |-> VcPrefix],
     [user |-> SupabaseBot, prefix |-> SupaPrefix],
     [user |-> CursorBot, prefix |-> CursorSummary] >>

\* a variant without the guard on an empty body
isMetaCommentUnguarded(user, body, metaFilters) ==
  \E k \in 1..Len(metaFilters) :
    user = metaFilters[k].user /\ StartsWith(body, metaFilters[k].prefix)

isMetaComment(user, body, metaFilters) ==
  IF Falsy(body) THEN FALSE
  ELSE \E k \in 1..Len(metaFilters) :
         user = metaFilters[k].user /\ StartsWith(body, metaFilters[k].prefix)

\* a variant that looks for "bot" in any case
isBotAnyCase(username) ==
  IF Falsy(username) THEN FALSE
  ELSE \/ EndsWith(username, BotSuffix)
       \/ username = Copilot
       \/ Includes(LowerText(username), BotWord)
       \/ username = GithubActions

isBot(username) ==
  IF Falsy(username) THEN FALSE
  ELSE \/ EndsWith(username, BotSuffix)
       \/ username = Copilot
       \/ Includes(username, BotWord)
       \/ username = GithubActions

----------------------------------------------------------------------------
(* cleanBody: four global replacements, then trim.  MatchEnd gives, for    *)
(* a pattern and a start position, the position of the last character of   *)
(* the match the regular expression finds there, or 0.                     *)

\* /<!--[\s\S]*?-->/
HtmlCommentEnd(s, i) ==
  IF ~MatchAt(s, i, HtmlOpen) THEN 0
  ELSE LET j == FirstAt(s, i + Len(HtmlOpen), HtmlClose)
       IN IF j = 0 THEN 0 ELSE j + Len(HtmlClose) - 1

\* /<details>\s*<summary>\s*Additional Locations[\s\S]*?<\/details>/i
DetailsEnd(s, i) ==
  IF ~MatchAtCI(s, i, DetailsOpen) THEN 0
  ELSE LET a == SkipSpace(s, i + Len(DetailsOpen))
       IN IF ~MatchAtCI(s, a, SummaryOpen) THEN 0
          ELSE LET b == SkipSpace(s, a + Len(SummaryOpen))
               IN IF ~MatchAtCI(s, b, AdditionalLocations) THEN 0
                  ELSE LET j == FirstAtCI(s, b + Len(AdditionalLocations), DetailsClose)
                       IN IF j = 0 THEN 0 ELSE j + Len(DetailsClose) - 1

\* /<p>\s*<a [^>]*cursor\.com[\s\S]*?<\/p>/i
CursorParagraphEnd(s, i) ==
  IF ~MatchAtCI(s, i, POpen) THEN 0
  ELSE LET a == SkipSpace(s, i + Len(POpen))
       IN IF ~MatchAtCI(s, a, AOpen) THEN 0
          ELSE LET c == a + Len(AOpen)
                   \* [^>]* may run up to the first ">" after "<a "
                   K == {k \in c..Len(s) :
                           /\ MatchAtCI(s, k, CursorCom)
                           /\ \A m \in c..(k - 1) : s[m] # ">"}
               IN IF K = {} THEN 0
                  ELSE LET Ends == {FirstAtCI(s, k + Len(CursorCom), PClose) : k \in K} \ {0}
                       IN IF Ends = {} THEN 0 ELSE Min(Ends) + Len(PClose) - 1

MatchEnd(pattern, s, i) ==
  CASE pattern = "htmlComment" -> HtmlCommentEnd(s, i)
    [] pattern = "details" -> DetailsEnd(s, i)
    [] pattern = "cursorParagraph" -> CursorParagraphEnd(s, i)

RECURSIVE RemoveFrom(_, _, _)
\* s.replace(/pattern/g, "") from position i on
RemoveFrom(pattern, s, i) ==
  IF i > Len(s) THEN <<>>
  ELSE LET e == MatchEnd(pattern, s, i)
       IN IF e # 0 THEN RemoveFrom(pattern, s, e + 1)
          ELSE <<s[i]>> \o RemoveFrom(pattern, s, i + 1)

RemoveAll(pattern, s) == RemoveFrom(pattern, s, 1)

\* length of the run of newlines that starts at i
NewlineRun(s, i) ==
  LET J == {j \in i..Len(s) : s[j] # "\n"}
  IN (IF J = {} THEN Len(s) + 1 ELSE Min(J)) - i

RECURSIVE CollapseFrom(_, _)
\* s.replace(/\n{3,}/g, "\n\n") from position i on
CollapseFrom(s, i) ==
  IF i > Len(s) THEN <<>>
  ELSE LET n == NewlineRun(s, i)
       IN IF n >= 3 THEN <<"\n", "\n">> \o CollapseFrom(s, i + n)
          ELSE IF n >= 1 THEN SubSeq(s, i, i + n - 1) \o CollapseFrom(s, i + n)
          ELSE <<s[i]>> \o CollapseFrom(s, i + 1)

\* a variant that trims the front only
TrimStart(s) ==
  LET J == {j \in 1..Len(s) : s[j] \notin WhiteSpace}
  IN IF J = {} THEN <<>> ELSE SubSeq(s, Min(J), Len(s))

Trim(s) ==
  LET J == {j \in 1..Len(s) : s[j] \notin WhiteSpace}
  IN IF J = {} THEN <<>>
     ELSE SubSeq(s, Min(J), CHOOSE j \in J : \A k \in J : k <= j)

\* each step's result is bound once and handed to the next step
cleanBody(body) ==
  IF Falsy(body) THEN body
  ELSE CHOOSE cleaned \in
         {Trim(d) : d \in
           {CollapseFrom(c, 1) : c \in
             {RemoveAll("cursorParagraph", b) : b \in
               {RemoveAll("details", a) : a \in
                 {RemoveAll("htmlComment", x) : x \in {body}}}}}} : TRUE

----------------------------------------------------------------------------
(* processComments.  Raw entities as the API yields them:                  *)
(*   review comment  [id, user, body, created_at, in_reply_to_id]          *)
(*   issue comment   [id, user, body, created_at]                          *)
(*   review          [id, user, body, state, submitted_at]                 *)
(* user is comment.user?.login; in_reply_to_id = 0 stands for an absent    *)
(* (falsy) parent id; times are the values of new Date(...).getTime().     *)
(* The fields path, line, diffHunk, updatedAt and url are copied through   *)
(* unread by every function modelled here and are left out.                *)

\* repliesMap.get(id) || []
\* a variant that hands every reply to every thread root
RepliesToAny(reviewComments, id) ==
  LET IsReply(c) == c.in_reply_to_id # 0
      rs == SelectSeq(reviewComments, IsReply)
  IN [k \in 1..Len(rs) |->
        [id |-> rs[k].id,
         user |-> rs[k].user,
         body |-> cleanBody(rs[k].body),
         createdAt |-> rs[k].created_at,
         isBot |-> isBot(rs[k].user)]]

RepliesTo(reviewComments, id) ==
  LET IsReply(c) == c.in_reply_to_id # 0 /\ c.in_reply_to_id = id
      rs == SelectSeq(reviewComments, IsReply)
  IN [k \in 1..Len(rs) |->
        [id |-> rs[k].id,
         user |-> rs[k].user,
         body |-> cleanBody(rs[k].body),
         createdAt |-> rs[k].created_at,
         isBot |-> isBot(rs[k].user)]]

\* a variant that takes every reply for a human one
ReviewCommentEntityAnyHuman(comment, reviewComments) ==
  LET replies == RepliesTo(reviewComments, comment.id)
  IN [id |-> comment.id,
      type |-> "review_comment",
      user |-> comment.user,
      isBot |-> isBot(comment.user),
      body |-> cleanBody(comment.body),
      state |-> "undefined",
      createdAt |-> comment.created_at,
      replies |-> replies,
      hasHumanReply |-> Len(replies) > 0,
      hasAnyReply |-> Len(replies) > 0,
      isResolved |-> FALSE]

ReviewCommentEntity(comment, reviewComments) ==
  LET replies == RepliesTo(reviewComments, comment.id)
  IN [id |-> comment.id,
      type |-> "review_comment",
      user |-> comment.user,
      isBot |-> isBot(comment.user),
      body |-> cleanBody(comment.body),
      state |-> "undefined",
      createdAt |-> comment.created_at,
      replies |-> replies,
      hasHumanReply |-> \E k \in 1..Len(replies) : ~replies[k].isBot,
      hasAnyReply |-> Len(replies) > 0,
      isResolved |-> FALSE]

IssueCommentEntity(comment) ==
  [id |-> comment.id,
   type |-> "issue_comment",
   user |-> comment.user,
   isBot |-> isBot(comment.user),
   body |-> cleanBody(comment.body),
   state |-> "undefined",
   createdAt |-> comment.created_at,
   replies |-> <<>>,
   hasHumanReply |-> FALSE,
   hasAnyReply |-> FALSE,
   isResolved |-> FALSE]

\* a variant that takes only an approval for resolved
ReviewEntityApprovedOnly(review) ==
  [id |-> review.id,
   type |-> "review",
   user |-> review.user,
   isBot |-> isBot(review.user),
   body |-> cleanBody(review.body),
   state |-> review.state,
   createdAt |-> review.submitted_at,
   replies |-> <<>>,
   hasHumanReply |-> FALSE,
   hasAnyReply |-> FALSE,
   isResolved |-> review.state = "APPROVED"]

ReviewEntity(review) ==
  [id |-> review.id,
   type |-> "review",
   user |-> review.user,
   isBot |-> isBot(review.user),
   body |-> cleanBody(review.body),
   state |-> review.state,
   createdAt |-> review.submitted_at,
   replies |-> <<>>,
   hasHumanReply |-> FALSE,
   hasAnyReply |-> FALSE,
   isResolved |-> review.state = "APPROVED" \/ review.state = "DISMISSED"]

\* a variant that takes only a missing or empty body for blank
BlankBodyEmptyOnly(body) == Falsy(body)

\* !review.body?.trim()
BlankBody(body) == Falsy(body) \/ Trim(body) = <<>>

\* a variant that puts e ahead of the entities of its own date
InsertByDateAhead(sorted, e) ==
  LET n == Cardinality({k \in 1..Len(sorted) : sorted[k].createdAt > e.createdAt})
  IN SubSeq(sorted, 1, n) \o <<e>> \o SubSeq(sorted, n + 1, Len(sorted))

\* Array.prototype.sort is stable: e goes behind every entity at least as new
InsertByDate(sorted, e) ==
  LET n == Cardinality({k \in 1..Len(sorted) : sorted[k].createdAt >= e.createdAt})
  IN SubSeq(sorted, 1, n) \o <<e>> \o SubSeq(sorted, n + 1, Len(sorted))

RECURSIVE SortNewestFirst(_)
SortNewestFirst(s) ==
  IF s = <<>> THEN <<>>
  ELSE InsertByDate(SortNewestFirst(SubSeq(s, 1, Len(s) - 1)), s[Len(s)])

processCommentsWith(data, metaFilters) ==
  LET IsRoot(c) == c.in_reply_to_id = 0 /\ ~isMetaComment(c.user, c.body, metaFilters)
      NotMeta(c) == ~isMetaComment(c.user, c.body, metaFilters)
      KeptReview(r) == ~isMetaComment(r.user, r.body, metaFilters) /\ ~BlankBody(r.body)
      roots == SelectSeq(data.reviewComments, IsRoot)
      issues == SelectSeq(data.issueComments, NotMeta)
      revs == SelectSeq(data.reviews, KeptReview)
  IN SortNewestFirst(
       [k \in 1..Len(roots) |-> ReviewCommentEntity(roots[k], data.reviewComments)]
       \o [k \in 1..Len(issues) |-> IssueCommentEntity(issues[k])]
       \o [k \in 1..Len(revs) |-> ReviewEntity(revs[k])])

\* processComments(data): options = {}, so the default meta filters apply
processComments(data) == processCommentsWith(data, DEFAULT_META_FILTERS)

----------------------------------------------------------------------------
(* filterComments.  options.filter is "unresolved", "unanswered" or        *)
(* "null" (no state filter).                                               *)

\* a variant whose "unresolved" filter looks at isResolved alone
filterCommentsResolvedOnly(comments, options) ==
  LET IsBotEntity(c) == c.isBot
      IsHumanEntity(c) == ~c.isBot
      Unresolved(c) == ~c.isResolved
      Unanswered(c) == ~c.hasAnyReply
      byActor == IF options.botsOnly THEN SelectSeq(comments, IsBotEntity)
                 ELSE IF options.humansOnly THEN SelectSeq(comments, IsHumanEntity)
                 ELSE comments
  IN IF options.filter = "unresolved" THEN SelectSeq(byActor, Unresolved)
     ELSE IF options.filter = "unanswered" THEN SelectSeq(byActor, Unanswered)
     ELSE byActor

\* a variant that looks at humansOnly first
filterCommentsHumansFirst(comments, options) ==
  LET IsBotEntity(c) == c.isBot
      IsHumanEntity(c) == ~c.isBot
      Unresolved(c) == ~(c.isResolved \/ c.hasHumanReply)
      Unanswered(c) == ~c.hasAnyReply
      byActor == IF options.humansOnly THEN SelectSeq(comments, IsHumanEntity)
                 ELSE IF options.botsOnly THEN SelectSeq(comments, IsBotEntity)
                 ELSE comments
  IN IF options.filter = "unresolved" THEN SelectSeq(byActor, Unresolved)
     ELSE IF options.filter = "unanswered" THEN SelectSeq(byActor, Unanswered)
     ELSE byActor

filterComments(comments, options) ==
  LET IsBotEntity(c) == c.isBot
      IsHumanEntity(c) == ~c.isBot
      Unresolved(c) == ~(c.isResolved \/ c.hasHumanReply)
      Unanswered(c) == ~c.hasAnyReply
      byActor == IF options.botsOnly THEN SelectSeq(comments, IsBotEntity)
                 ELSE IF options.humansOnly THEN SelectSeq(comments, IsHumanEntity)
                 ELSE comments
  IN IF options.filter = "unresolved" THEN SelectSeq(byActor, Unresolved)
     ELSE IF options.filter = "unanswered" THEN SelectSeq(byActor, Unanswered)
     ELSE byActor

Ids(comments) == {comments[k].id : k \in 1..Len(comments)}

----------------------------------------------------------------------------
(* Bounds of the model *)

\* raw entities the pull request may hold (a prefix of Pool)
MaxItems == 3
\* options.watchInterval ranges over 1..MaxInterval seconds
MaxInterval == 2
\* options.watchTimeout ranges over 0..MaxTimeout seconds
MaxTimeout == 2
\* a fetchPRComments call takes 0..MaxFetchTicks ticks of the clock
MaxFetchTicks == 1
\* the server holds the pages u1 .. uMaxPages
MaxPages == 3
\* replyToComment's commentId ranges over 1..MaxCommentId
MaxCommentId == 2
\* the texts handed to cleanBody are made of at most MaxPieces fragments
MaxPieces == 4
\* the names handed to isBot are made of at most MaxNameParts fragments
MaxNameParts == 3
\* processComments is handed at most MaxRaw review comments
MaxRaw == 2
\* the arrays handed to filterComments hold at most MaxEntities entities
MaxEntities == 2

\* await sleep(5)
GraceSeconds == 5

----------------------------------------------------------------------------
(* State.  Each operation is modelled by a specification of its own:       *)
(* watchForComments (Spec, SpecFair), fetchAllPages (SpecPages),           *)
(* replyToComment (SpecReply), processComments (SpecProcess),              *)
(* filterComments (SpecFilter) and cleanBody (SpecClean).  While one runs  *)
(* the variables of the others rest.                                       *)

VARIABLES
  options,           \* the parsed command line
  pullRequest,       \* which items of Pool the pull request always holds
                     \* during the watch, and which it may hold
  pc,                \* where watchForComments stands
  seenIds,           \* const seenIds = new Set()
  lastActivityTime,  \* let lastActivityTime = Date.now()
  pollCount,         \* let pollCount = 0
  newComments,       \* the detecting poll's newComments array
  now,               \* Date.now(), counted in half seconds, up to the last
                     \* point at which the loop can still read it: the time
                     \* taken by a rejected fetch or by the grace pass's
                     \* fetch is not counted
  out,               \* what has been printed, in order
  fetches,           \* history: every fetchPRComments call, in order
  sleeps,            \* history: every sleep(seconds) call, in order
  hist               \* history: what the fetches returned (see HistInit)

watchVars == <<options, pullRequest, pc, seenIds, lastActivityTime, pollCount, newComments,
               now, out, fetches, sleeps, hist>>

VARIABLES
  links,             \* the server: for each page url the Link entries it sends
  nextUrl,           \* let nextUrl = url
  results,           \* const results = []
  requests,          \* history: every proxyFetch call of fetchAllPages, in order
  pst,               \* where fetchAllPages stands
  returned,          \* the array the call resolved to
  thrown             \* the message of the error the call rejected with

pageVars == <<links, nextUrl, results, requests, pst, returned, thrown>>

VARIABLES
  commentId,         \* replyToComment's commentId
  message,           \* replyToComment's message
  rst,               \* where replyToComment stands
  posts,             \* history: every POST of the call, in order
  replied,           \* the entity the call resolved to
  replyThrown        \* the message of the error the call rejected with

replyVars == <<commentId, message, rst, posts, replied, replyThrown>>

VARIABLES
  rawData,           \* processComments' data: the three raw collections
  metaInForce,       \* options.metaFilters || DEFAULT_META_FILTERS
  processed,         \* the array processComments returned
  prs                \* where the call of processComments stands

processVars == <<rawData, metaInForce, processed, prs>>

VARIABLES
  arrays,            \* the arrays that exist, by reference (index)
  given,             \* history: the input array as it was handed over
  commentsRef,       \* filterComments' comments: a reference into arrays
  filterOptions,     \* filterComments' options
  filterResult,      \* the reference filterComments returned
  fls                \* where the call of filterComments stands

filterVars == <<arrays, given, commentsRef, filterOptions, filterResult, fls>>

VARIABLES
  cleanInput,        \* the text handed to cleanBody
  cleanedOnce,       \* cleanBody(text)
  cleanedTwice,      \* cleanBody(cleanBody(text))
  cls                \* how often cleanBody has been applied

cleanVars == <<cleanInput, cleanedOnce, cleanedTwice, cls>>

pureVars == <<processVars, filterVars, cleanVars>>

\* isBot: one call
VARIABLES
  username,          \* the name handed to isBot
  isBotResult,       \* what isBot returned
  bts                \* "Input" before the call, "Returned" after it

botVars == <<username, isBotResult, bts>>

\* main: one run of the command line
VARIABLES
  mainInput,         \* the arguments and the environment of the run
  mpc,               \* where main stands
  exitCode,          \* the exit status, once mpc = "Exited"
  netCalls           \* the network calls issued so far, in order

mainVars == <<mainInput, mpc, exitCode, netCalls>>

\* fetchPRComments: one call
VARIABLES
  endpoints,         \* what the server holds for each of the three endpoints
  fetchers,          \* the three fetchAllPages calls, each with its own results
  jst,               \* "Pending", "Returned" or "Thrown"
  joined             \* the value fetchPRComments resolved to

joinVars == <<endpoints, fetchers, jst, joined>>

callVars == <<botVars, mainVars, joinVars>>

vars == <<watchVars, pageVars, replyVars, pureVars, callVars>>

----------------------------------------------------------------------------
(* fetchAllPages *)

Digits == <<"0","1","2","3","4","5","6","7","8","9">>

RECURSIVE DigitsOf(_)
\* the decimal digits a template literal writes for a number n >= 0
DigitsOf(n) ==
  IF n < 10 THEN <<Digits[n + 1]>>
  ELSE DigitsOf(n \div 10) \o <<Digits[(n % 10) + 1]>>

\* the url of page k
UrlOf(k) == <<"u">> \o DigitsOf(k)

Urls == {UrlOf(k) : k \in 1..MaxPages}

\* the items page k holds, in the order the server yields them
ItemsOf(k) == [j \in 1..(k % 3) |-> 10 * k + j]

\* await response.json() for the page at url u
PageData(u) == ItemsOf(CHOOSE k \in 1..MaxPages : UrlOf(k) = u)

RelPrev == <<"p","r","e","v">>
RelNext == <<"n","e","x","t">>
RelNextParam == <<"r","e","l","=","\"","n","e","x","t","\"">>

\* the Link entries a page may carry: none (no Link header), a link back to
\* the first page, a link to a next page, or both
LinkChoices ==
  {<<>>, <<[url |-> UrlOf(1), rel |-> RelPrev]>>}
    \cup {<<[url |-> u, rel |-> RelNext]>> : u \in Urls}
    \cup {<<[url |-> UrlOf(1), rel |-> RelPrev], [url |-> u, rel |-> RelNext]>> : u \in Urls}

RECURSIVE FormatLinks(_)
\* the Link header as GitHub writes it: <url>; rel="name", <url>; rel="name"
FormatLinks(entries) ==
  IF entries = <<>> THEN <<>>
  ELSE <<"<">> \o entries[1].url \o <<">", ";", " ", "r","e","l","=","\"">>
       \o entries[1].rel \o <<"\"">>
       \o (IF Len(entries) > 1 THEN <<",", " ">> \o FormatLinks(Tail(entries)) ELSE <<>>)

\* response.headers.get("link")
LinkHeader(entries) == IF entries = <<>> THEN Null ELSE FormatLinks(entries)

\* /<([^>]+)>;\s*rel="next"/ tried at position i: the url captured, or Null
LinkMatchAt(s, i) ==
  IF ~MatchAt(s, i, <<"<">>) THEN Null
  ELSE LET close == FirstAt(s, i + 1, <<">">>)
       IN IF close < i + 2 THEN Null
          ELSE IF ~MatchAt(s, close + 1, <<";">>) THEN Null
          ELSE IF ~MatchAt(s, SkipSpace(s, close + 2), RelNextParam) THEN Null
          ELSE SubSeq(s, i + 1, close - 1)

\* variant: an expression that takes the first link whatever its relation
NextMatchAnyRel(linkHeader) ==
  LET open == FirstAt(linkHeader, 1, <<"<">>)
      close == FirstAt(linkHeader, open + 1, <<">">>)
  IN IF open = 0 \/ close < open + 2 THEN Null
     ELSE SubSeq(linkHeader, open + 1, close - 1)

\* linkHeader.match(/<([^>]+)>;\s*rel="next"/): nextMatch[1], or Null
NextMatch(linkHeader) ==
  LET I == {i \in 1..Len(linkHeader) : LinkMatchAt(linkHeader, i) # Null}
  IN IF I = {} THEN Null ELSE LinkMatchAt(linkHeader, Min(I))

\* response.ok
Ok(status) == status >= 200 /\ status <= 299

\* the statuses the server answers a page request with
PageStatuses == {200, 403, 500}

\* `API request failed: ${response.status}`
ApiError(status) ==
  <<"A","P","I"," ","r","e","q","u","e","s","t"," ","f","a","i","l","e","d",":"," ">>
    \o DigitsOf(status)

\* the message of the error a rejected proxyFetch carries
NetworkError == <<"f","e","t","c","h"," ","f","a","i","l","e","d">>

\* no run over a chain without a loop asks for more pages than there are
MaxRequests == MaxPages + 1

PagesRest ==
  /\ links = <<>>
  /\ nextUrl = Null
  /\ results = <<>>
  /\ requests = <<>>
  /\ pst = "Rest"
  /\ returned = <<>>
  /\ thrown = <<>>

PagesInit ==
  /\ links \in [Urls -> LinkChoices]
  /\ nextUrl = UrlOf(1)
  /\ results = <<>>
  /\ requests = <<>>
  /\ pst = "Requesting"
  /\ returned = <<>>
  /\ thrown = <<>>

\* one turn of while (nextUrl) with a successful response, and the return
\* that follows the last one
PageOk ==
  /\ pst = "Requesting"
  /\ Len(requests) < MaxRequests
  /\ \E linkHeader \in {LinkHeader(links[nextUrl])} :
     \E next \in {IF Falsy(linkHeader) THEN Null ELSE NextMatch(linkHeader)} :
     \E all \in {results \o PageData(nextUrl)} :
     \E status \in {c \in PageStatuses : Ok(c)} :
       /\ requests' = Append(requests, [url |-> nextUrl, status |-> status])
       /\ results' = all
       /\ nextUrl' = next
       /\ IF Falsy(next)
          THEN pst' = "Returned" /\ returned' = all
          ELSE pst' = "Requesting" /\ returned' = returned
  /\ UNCHANGED <<links, thrown>>
  /\ UNCHANGED <<watchVars, replyVars, pureVars, callVars>>

\* variant: a failing page that ends the call with the items gathered so far
PageFailsPartial ==
  /\ pst = "Requesting"
  /\ Len(requests) < MaxRequests
  /\ \E status \in {c \in PageStatuses : ~Ok(c)} :
       requests' = Append(requests, [url |-> nextUrl, status |-> status])
  /\ pst' = "Returned"
  /\ returned' = results
  /\ UNCHANGED <<links, nextUrl, results, thrown>>
  /\ UNCHANGED <<watchVars, replyVars, pureVars, callVars>>

\* if (!response.ok) throw new Error(...)
PageFails ==
  /\ pst = "Requesting"
  /\ Len(requests) < MaxRequests
  /\ \E status \in {c \in PageStatuses : ~Ok(c)} :
       /\ requests' = Append(requests, [url |-> nextUrl, status |-> status])
       /\ thrown' = ApiError(status)
  /\ pst' = "Failed"
  /\ UNCHANGED <<links, nextUrl, results, returned>>
  /\ UNCHANGED <<watchVars, replyVars, pureVars, callVars>>

\* await proxyFetch(...) rejects: the rejection leaves fetchAllPages as it is
\* (logged with status 0: there is no response)
PageRejects ==
  /\ pst = "Requesting"
  /\ Len(requests) < MaxRequests
  /\ requests' = Append(requests, [url |-> nextUrl, status |-> 0])
  /\ thrown' = NetworkError
  /\ pst' = "Failed"
  /\ UNCHANGED <<links, nextUrl, results, returned>>
  /\ UNCHANGED <<watchVars, replyVars, pureVars, callVars>>

PagesNext == PageOk \/ PageFails \/ PageRejects

----------------------------------------------------------------------------
(* replyToComment *)

Messages == {<<"o","k">>, <<"f","i","x","e","d">>, <<"4","0","4">>}

\* what issueResponse.text() may hold
ErrorTexts == {<<"N","o","t"," ","F","o","u","n","d">>, <<>>}

ReplyStatuses == {201, 403, 404, 422}

\* variant: a fallback posted without the reference to the comment
FallbackBodyPlain(id, text) == text

\* `> Re: comment ${commentId}\n\n${message}`
FallbackBody(id, text) ==
  <<">"," ","R","e",":"," ","c","o","m","m","e","n","t"," ">> \o DigitsOf(id)
    \o <<"\n","\n">> \o text

\* `Failed to reply: ${issueResponse.status} - ${error}`
ReplyError(status, text) ==
  <<"F","a","i","l","e","d"," ","t","o"," ","r","e","p","l","y",":"," ">>
    \o DigitsOf(status) \o <<" ","-"," ">> \o text

\* the message of the error response.json() rejects with
JsonError == <<"U","n","e","x","p","e","c","t","e","d"," ","t","o","k","e","n">>

\* a POST as the server saw it; status 0: proxyFetch rejected
Post(endpoint, id, body, status) ==
  [endpoint |-> endpoint, commentId |-> id, body |-> body, status |-> status]

ReplyRest ==
  /\ commentId = 0
  /\ message = <<>>
  /\ rst = "Rest"
  /\ posts = <<>>
  /\ replied = <<>>
  /\ replyThrown = <<>>

ReplyInit ==
  /\ commentId \in 1..MaxCommentId
  /\ message \in Messages
  /\ rst = "Inline"
  /\ posts = <<>>
  /\ replied = <<>>
  /\ replyThrown = <<>>

\* the POST to /pulls/{pr}/comments/{id}/replies and what follows it up to
\* the fallback
PostInline ==
  /\ rst = "Inline"
  /\ \/ \E status \in ReplyStatuses :
          /\ posts' = Append(posts, Post("replies", commentId, message, status))
          /\ IF Ok(status)
             THEN \/ /\ rst' = "Returned"           \* return response.json()
                     /\ replied' = <<Post("replies", commentId, message, status)>>
                     /\ replyThrown' = replyThrown
                  \/ /\ rst' = "Failed"             \* response.json() rejects
                     /\ replyThrown' = JsonError
                     /\ replied' = replied
             ELSE /\ rst' = "Fallback"
                  /\ UNCHANGED <<replied, replyThrown>>
     \/ /\ posts' = Append(posts, Post("replies", commentId, message, 0))
        /\ rst' = "Failed"
        /\ replyThrown' = NetworkError
        /\ replied' = replied
  /\ UNCHANGED <<commentId, message>>
  /\ UNCHANGED <<watchVars, pageVars, pureVars, callVars>>

\* variant: a fallback whose failure is swallowed
PostFallbackQuiet ==
  /\ rst = "Fallback"
  /\ \E status \in ReplyStatuses :
       posts' = Append(posts, Post("issues", 0, FallbackBody(commentId, message), status))
  /\ rst' = "Returned"
  /\ UNCHANGED <<commentId, message, replied, replyThrown>>
  /\ UNCHANGED <<watchVars, pageVars, pureVars, callVars>>

\* the POST to /issues/{pr}/comments and what follows it
PostFallback ==
  /\ rst = "Fallback"
  /\ \E body \in {FallbackBody(commentId, message)} :
       \/ \E status \in ReplyStatuses :
            /\ posts' = Append(posts, Post("issues", 0, body, status))
            /\ IF Ok(status)
               THEN \/ /\ rst' = "Returned"         \* return issueResponse.json()
                       /\ replied' = <<Post("issues", 0, body, status)>>
                       /\ replyThrown' = replyThrown
                    \/ /\ rst' = "Failed"           \* issueResponse.json() rejects
                       /\ replyThrown' = JsonError
                       /\ replied' = replied
               ELSE /\ rst' = "Failed"
                    /\ \E error \in ErrorTexts : replyThrown' = ReplyError(status, error)
                    /\ replied' = replied
       \/ /\ posts' = Append(posts, Post("issues", 0, body, 0))
          /\ rst' = "Failed"
          /\ replyThrown' = NetworkError
          /\ replied' = replied
  /\ UNCHANGED <<commentId, message>>
  /\ UNCHANGED <<watchVars, pageVars, pureVars, callVars>>

ReplyNext == PostInline \/ PostFallback

----------------------------------------------------------------------------
(* processComments applied to the three raw collections of one pull        *)
(* request.  Ids are unique within each collection; review comments,       *)
(* issue comments and reviews are numbered independently of each other.    *)

Alice == <<"a","l","i","c","e">>

VcBody == VcPrefix \o <<" ","u","p">>
HmBody == <<"h","m">>
OkBody == <<"o","k">>

\* a thread root at position k: no in_reply_to_id
RawRoots(k) ==
  [id : {k},
   user : {VercelBot},
   body : {VcBody, HmBody},
   created_at : 1..2,
   in_reply_to_id : {0}]
  \cup
  [id : {k},
   user : {Alice},
   body : {OkBody},
   created_at : 1..2,
   in_reply_to_id : {0}]

\* a reply at position k: in_reply_to_id names any comment, present or not
RawReplies(k) ==
  [id : {k},
   user : {VercelBot},
   body : {HmBody},
   created_at : {1},
   in_reply_to_id : 1..MaxRaw]
  \cup
  [id : {k},
   user : {Alice},
   body : {OkBody},
   created_at : {1},
   in_reply_to_id : 1..MaxRaw]

RECURSIVE RawReviewComments(_)
\* the reviewComments collections of exactly n comments
RawReviewComments(n) ==
  IF n = 0 THEN {<<>>}
  ELSE {Append(l, c) : l \in RawReviewComments(n - 1),
                       c \in RawRoots(n) \cup RawReplies(n)}

RawIssueComments ==
  {<<>>}
  \cup {<<[id |-> 1, user |-> VercelBot, body |-> b, created_at |-> 1]>> :
          b \in {VcBody, HmBody}}
  \cup {<<[id |-> 1, user |-> Alice, body |-> b, created_at |-> 1]>> :
          b \in {OkBody, <<>>}}

RawReviews ==
  {<<>>}
  \cup {<<[id |-> 2, user |-> Alice, body |-> OkBody, state |-> s,
           submitted_at |-> 2]>> :
          s \in {"APPROVED", "CHANGES_REQUESTED", "COMMENTED", "DISMISSED"}}
  \cup {<<[id |-> 2, user |-> Alice, body |-> <<" ">>, state |-> "APPROVED",
           submitted_at |-> 2]>>,
        <<[id |-> 2, user |-> Alice, body |-> <<>>, state |-> "DISMISSED",
           submitted_at |-> 2]>>,
        <<[id |-> 2, user |-> Alice, body |-> Null, state |-> "COMMENTED",
           submitted_at |-> 2]>>,
        <<[id |-> 2, user |-> VercelBot, body |-> VcBody, state |-> "COMMENTED",
           submitted_at |-> 2]>>}

RawInputs ==
  [reviewComments : UNION {RawReviewComments(n) : n \in 0..MaxRaw},
   issueComments : RawIssueComments,
   reviews : RawReviews]

\* options.metaFilters || DEFAULT_META_FILTERS: the defaults, or a list of
\* the caller's that takes every body of one author for meta
MetaFilterChoices ==
  {DEFAULT_META_FILTERS, <<[user |-> Alice, prefix |-> <<>>]>>}

EmptyData == [reviewComments |-> <<>>, issueComments |-> <<>>, reviews |-> <<>>]

ProcessRest ==
  /\ rawData = EmptyData
  /\ metaInForce = DEFAULT_META_FILTERS
  /\ processed = <<>>
  /\ prs = "Rest"

ProcessInit ==
  /\ rawData \in RawInputs
  /\ metaInForce \in MetaFilterChoices
  /\ processed = <<>>
  /\ prs = "Called"

\* processComments(data, options), from the call to the return
Process ==
  /\ prs = "Called"
  /\ processed' = processCommentsWith(rawData, metaInForce)
  /\ prs' = "Returned"
  /\ UNCHANGED <<rawData, metaInForce>>
  /\ UNCHANGED <<watchVars, pageVars, replyVars, filterVars, cleanVars, callVars>>

ProcessNext == Process

----------------------------------------------------------------------------
(* filterComments applied to an array of entities.  Arrays are held by     *)
(* reference: `let filtered = comments` copies the reference, and every    *)
(* Array.prototype.filter call makes a new array.  Of an entity only the   *)
(* fields filterComments reads, and its id, are kept.                      *)

\* the entity at position k of an input array: its id is k
EntitiesAt(k) ==
  [id : {k}, isBot : BOOLEAN, isResolved : BOOLEAN,
   hasHumanReply : BOOLEAN, hasAnyReply : BOOLEAN]

RECURSIVE EntityLists(_)
\* the input arrays of exactly n entities
EntityLists(n) ==
  IF n = 0 THEN {<<>>}
  ELSE {Append(l, e) : l \in EntityLists(n - 1), e \in EntitiesAt(n)}

FilterInputs == UNION {EntityLists(n) : n \in 0..MaxEntities}

FilterOptions ==
  [botsOnly : BOOLEAN,
   humansOnly : BOOLEAN,
   filter : {"null", "unresolved", "unanswered"}]

\* the first if / else if of filterComments calls Array.prototype.filter
FiltersByActor(opts) == opts.botsOnly \/ opts.humansOnly

\* the second if / else if of filterComments calls Array.prototype.filter
FiltersByState(opts) == opts.filter = "unresolved" \/ opts.filter = "unanswered"

FilterRest ==
  /\ arrays = <<>>
  /\ given = <<>>
  /\ commentsRef = 0
  /\ filterOptions = [botsOnly |-> FALSE, humansOnly |-> FALSE, filter |-> "null"]
  /\ filterResult = 0
  /\ fls = "Rest"

FilterInit ==
  /\ given \in FilterInputs
  /\ arrays = <<given>>
  /\ commentsRef = 1
  /\ filterOptions \in FilterOptions
  /\ filterResult = 0
  /\ fls = "Called"

\* filterComments(comments, options), from the call to the return
Filter ==
  /\ fls = "Called"
  /\ \E byActor \in {filterComments(arrays[commentsRef],
                                     [filterOptions EXCEPT !.filter = "null"])} :
     \E value \in {filterComments(arrays[commentsRef], filterOptions)} :
     \E made \in {(IF FiltersByActor(filterOptions) THEN <<byActor>> ELSE <<>>)
                    \o (IF FiltersByState(filterOptions) THEN <<value>> ELSE <<>>)} :
       /\ arrays' = arrays \o made
       /\ filterResult' = IF made = <<>> THEN commentsRef ELSE Len(arrays) + Len(made)
  /\ fls' = "Returned"
  /\ UNCHANGED <<given, commentsRef, filterOptions>>
  /\ UNCHANGED <<watchVars, pageVars, replyVars, processVars, cleanVars, callVars>>

FilterNext == Filter

----------------------------------------------------------------------------
(* cleanBody applied to a text and then to its own result *)

\* the fragments the texts are put together from
Pieces ==
  { <<"<","!","-","-","x","-","-",">">>,
    <<"<","!","-">>,
    <<"-">>,
    <<"-","-",">">>,
    <<"\n","\n">>,
    <<"\n">>,
    <<" ">>,
    <<"x">> }

RECURSIVE TextsOf(_)
\* the texts of at most n fragments
TextsOf(n) ==
  IF n = 0 THEN {<<>>}
  ELSE LET shorter == TextsOf(n - 1)
       IN shorter \cup {t \o p : t \in shorter, p \in Pieces}

Texts == TextsOf(MaxPieces) \cup {Null}

CleanRest ==
  /\ cleanInput = <<>>
  /\ cleanedOnce = <<>>
  /\ cleanedTwice = <<>>
  /\ cls = "Rest"

CleanInit ==
  /\ cleanInput \in Texts
  /\ cleanedOnce = <<>>
  /\ cleanedTwice = <<>>
  /\ cls = "Input"

\* cleanBody(text)
CleanOnce ==
  /\ cls = "Input"
  /\ cleanedOnce' = cleanBody(cleanInput)
  /\ cls' = "Once"
  /\ UNCHANGED <<cleanInput, cleanedTwice>>
  /\ UNCHANGED <<watchVars, pageVars, replyVars, processVars, filterVars, callVars>>

\* cleanBody applied to the text it returned
CleanAgain ==
  /\ cls = "Once"
  /\ cleanedTwice' = cleanBody(cleanedOnce)
  /\ cls' = "Twice"
  /\ UNCHANGED <<cleanInput, cleanedOnce>>
  /\ UNCHANGED <<watchVars, pageVars, replyVars, processVars, filterVars, callVars>>

CleanNext == CleanOnce \/ CleanAgain

PureRest == ProcessRest /\ FilterRest /\ CleanRest

----------------------------------------------------------------------------
(* isBot applied to a name *)

\* the names are made of at most MaxNameParts of these fragments
NameParts ==
  { BotWord, BotSuffix, Copilot, GithubActions,
    <<"B","o","t">>, <<"b","o">>, <<"t">>, <<"a">> }

RECURSIVE NamesOf(_)
NamesOf(n) ==
  IF n = 0 THEN {<<>>}
  ELSE LET shorter == NamesOf(n - 1)
       IN shorter \cup {a \o b : a \in shorter, b \in NameParts}

\* comment.user?.login: a name, the empty name, or none
Names == NamesOf(MaxNameParts) \cup {Null}

BotRest == username = <<>> /\ isBotResult = FALSE /\ bts = "Rest"

BotInit == username \in Names /\ isBotResult = FALSE /\ bts = "Input"

\* isBot(username), from the call to the return
IsBotCall ==
  /\ bts = "Input"
  /\ isBotResult' = isBot(username)
  /\ bts' = "Returned"
  /\ UNCHANGED username
  /\ UNCHANGED <<watchVars, pageVars, replyVars, pureVars, mainVars, joinVars>>

BotNext == IsBotCall

----------------------------------------------------------------------------
(* main: one invocation of the command line.  What the environment holds   *)
(* is drawn once: the parsed options, whether getGitHubToken, getRepoInfo  *)
(* and getCurrentBranch come back with a value, what the pull request      *)
(* lookup answers and how the command's own requests end.                  *)

Commands == {"list", "reply", "detail", "watch"}

Invocations ==
  {i \in [version : BOOLEAN, help : BOOLEAN,  \* options.version, options.help
          token : BOOLEAN,                    \* getGitHubToken() is truthy
          repoInfo : BOOLEAN,                 \* getRepoInfo() is truthy
          prNumber : BOOLEAN,                 \* options.prNumber is truthy
          branch : BOOLEAN,                   \* getCurrentBranch() is truthy
          lookup : {"found", "none", "fails"},  \* findPRForBranch
          command : Commands,
          args : BOOLEAN,     \* what --reply or --detail need is there
          outcome : {"ok", "fails", "notFound"}] :
     i.outcome = "notFound" => i.command = "detail"}

\* no invocation: the fields are not read
NoInvocation ==
  [version |-> FALSE, help |-> FALSE, token |-> FALSE, repoInfo |-> FALSE,
   prNumber |-> FALSE, branch |-> FALSE, lookup |-> "none",
   command |-> "list", args |-> FALSE, outcome |-> "ok"]

MainRest ==
  mainInput = NoInvocation /\ mpc = "Rest" /\ exitCode = 0 /\ netCalls = <<>>

MainInit ==
  mainInput \in Invocations /\ mpc = "Start" /\ exitCode = 0 /\ netCalls = <<>>

\* process.exit(code), or the end of main
Exit(code) == mpc' = "Exited" /\ exitCode' = code /\ UNCHANGED netCalls

\* the first request of an awaited call leaves
Call(name, at) == mpc' = at /\ netCalls' = Append(netCalls, name) /\ UNCHANGED exitCode

\* a variant that goes on without a repository
MissingConfigurationTokenOnly(i) == ~i.token

\* the token and the repository, looked up without the network
MissingConfiguration(i) == ~i.token \/ ~i.repoInfo

\* the command, once the pull request number is known
Dispatch ==
  CASE mainInput.command = "reply" ->
         IF ~mainInput.args THEN Exit(1) ELSE Call("replyToComment", "Replying")
    [] mainInput.command = "detail" ->
         IF ~mainInput.args THEN Exit(1) ELSE Call("fetchPRComments", "Fetching")
    [] mainInput.command = "watch" -> Call("fetchPRComments", "Watching")
    [] OTHER -> Call("fetchPRComments", "Fetching")

\* main up to its first await
MainStart ==
  /\ mpc = "Start"
  /\ IF mainInput.version \/ mainInput.help THEN Exit(0)
     ELSE IF MissingConfiguration(mainInput) THEN Exit(1)
     ELSE IF ~mainInput.prNumber
          THEN IF ~mainInput.branch THEN Exit(1)
               ELSE Call("findPRForBranch", "FindingPR")
          ELSE Dispatch
  /\ UNCHANGED mainInput
  /\ UNCHANGED <<watchVars, pageVars, replyVars, pureVars, botVars, joinVars>>

\* findPRForBranch settles: the first open pull request, null, or a throw
\* that main().catch turns into exit 1
FindPRReturns ==
  /\ mpc = "FindingPR"
  /\ CASE mainInput.lookup = "found" -> Dispatch
       [] mainInput.lookup = "none" -> Exit(1)
       [] OTHER -> Exit(1)
  /\ UNCHANGED mainInput
  /\ UNCHANGED <<watchVars, pageVars, replyVars, pureVars, botVars, joinVars>>

\* the command's awaited call settles and main ends
CommandReturns ==
  /\ mpc \in {"Replying", "Fetching", "Watching"}
  /\ CASE mainInput.outcome = "ok" -> Exit(0)
       [] mainInput.outcome = "notFound" -> Exit(1)
       [] OTHER -> Exit(1)
  /\ UNCHANGED mainInput
  /\ UNCHANGED <<watchVars, pageVars, replyVars, pureVars, botVars, joinVars>>

MainNext == MainStart \/ FindPRReturns \/ CommandReturns

----------------------------------------------------------------------------
(* fetchPRComments: three fetchAllPages calls under Promise.all.  Each     *)
(* call has its own results and its own nextUrl; the server holds a chain  *)
(* of pages for each endpoint and may answer one request of the chain      *)
(* with a status that is not ok.                                           *)

MaxJoinPages == 2

\* in the order of the array given to Promise.all
EndpointNames == <<"reviewComments", "issueComments", "reviews">>

Endpoints == {EndpointNames[k] : k \in 1..Len(EndpointNames)}

\* what the server holds for one endpoint: the length of the chain and the
\* request that fails (0: none)
Chains ==
  {c \in [pages : 1..MaxJoinPages, failAt : 0..MaxJoinPages] : c.failAt <= c.pages}

\* the items of page p of endpoint e
JoinPage(e, p) == <<[endpoint |-> e, page |-> p]>>

\* pages 1 to n of endpoint e, in the order of the chain
RECURSIVE PagesUpTo(_, _)
PagesUpTo(e, n) == IF n = 0 THEN <<>> ELSE PagesUpTo(e, n - 1) \o JoinPage(e, n)

NoCollections == [e \in Endpoints |-> <<>>]

JoinRest == endpoints = <<>> /\ fetchers = <<>> /\ jst = "Rest" /\ joined = <<>>

JoinInit ==
  /\ endpoints \in [Endpoints -> Chains]
  /\ fetchers = [e \in Endpoints |-> [st |-> "Idle", page |-> 0, results |-> <<>>]]
  /\ jst = "Called"
  /\ joined = NoCollections

\* a variant that hands back what the calls that did not fail gathered
PromiseAllLenient(f) ==
  IF \A e \in Endpoints : f[e].st \in {"Done", "Failed"} THEN "Returned"
  ELSE "Pending"

\* Promise.all: rejected with the first rejection, fulfilled with the last
\* fulfilment
PromiseAll(f) ==
  IF \E e \in Endpoints : f[e].st = "Failed" THEN "Thrown"
  ELSE IF \A e \in Endpoints : f[e].st = "Done" THEN "Returned"
  ELSE "Pending"

\* fetchPRComments up to its await: each fetchAllPages call runs to its
\* first await, which issues the request for its first page
JoinStart ==
  /\ jst = "Called"
  /\ fetchers' = [e \in Endpoints |-> [st |-> "Requesting", page |-> 1, results |-> <<>>]]
  /\ jst' = "Pending"
  /\ UNCHANGED <<endpoints, joined>>
  /\ UNCHANGED <<watchVars, pageVars, replyVars, pureVars, botVars, mainVars>>

\* what one fetchAllPages call does with the response to its request
Answered(e, f) ==
  IF endpoints[e].failAt = f.page
  THEN [f EXCEPT !.st = "Failed"]
  ELSE IF f.page < endpoints[e].pages
       THEN [f EXCEPT !.results = @ \o JoinPage(e, f.page), !.page = @ + 1]
       ELSE [f EXCEPT !.results = @ \o JoinPage(e, f.page), !.st = "Done"]

\* the response to the request of one of the calls arrives; the call goes on
\* to its next await or settles, and with it, when it is still pending, the
\* promise fetchPRComments awaits
Respond(e) ==
  /\ fetchers[e].st = "Requesting"
  /\ \E after \in {[fetchers EXCEPT ![e] = Answered(e, fetchers[e])]} :
       /\ fetchers' = after
       /\ jst' = IF jst = "Pending" THEN PromiseAll(after) ELSE jst
       /\ joined' = IF jst = "Pending" /\ PromiseAll(after) = "Returned"
                    THEN [x \in Endpoints |-> after[x].results]
                    ELSE joined
  /\ UNCHANGED endpoints
  /\ UNCHANGED <<watchVars, pageVars, replyVars, pureVars, botVars, mainVars>>

JoinNext == JoinStart \/ \E e \in Endpoints : Respond(e)

CallRest == BotRest /\ MainRest /\ JoinRest

----------------------------------------------------------------------------
(* What the API may hold.  Ids are unique within each of the three         *)
(* collections only: review comments, issue comments and reviews are       *)
(* numbered independently, so Pool[1] and Pool[2] share an id.             *)

Pool ==
  << [kind |-> "reviewComment",
      item |-> [id |-> 1, user |-> CursorBot, body |-> <<"b","u","g">>,
                created_at |-> 1, in_reply_to_id |-> 0]],
     [kind |-> "issueComment",
      item |-> [id |-> 1, user |-> Alice, body |-> <<"h","i">>,
                created_at |-> 3]],
     [kind |-> "review",
      item |-> [id |-> 3, user |-> Alice, body |-> <<"l","g","t","m">>,
                state |-> "APPROVED", submitted_at |-> 4]],
     [kind |-> "issueComment",
      item |-> [id |-> 4, user |-> VercelBot, body |-> VcPrefix \o <<" ","u","p">>,
                created_at |-> 5]],
     [kind |-> "reviewComment",
      item |-> [id |-> 2, user |-> Alice, body |-> <<"o","k">>,
                created_at |-> 2, in_reply_to_id |-> 1]],
     [kind |-> "reviewComment",
      item |-> [id |-> 5, user |-> CursorBot, body |-> <<"f","i","x">>,
                created_at |-> 6, in_reply_to_id |-> 1]],
     [kind |-> "review",
      item |-> [id |-> 6, user |-> CursorBot, body |-> <<" ">>,
                state |-> "COMMENTED", submitted_at |-> 7]] >>

Items == 1..(IF MaxItems <= Len(Pool) THEN MaxItems ELSE Len(Pool))

RECURSIVE Collect(_, _, _)
\* the items of one kind among Pool[i..], S the indices present
Collect(kind, S, i) ==
  IF i > Len(Pool) THEN <<>>
  ELSE (IF i \in S /\ Pool[i].kind = kind THEN <<Pool[i].item>> ELSE <<>>)
       \o Collect(kind, S, i + 1)

\* the value fetchPRComments resolves to when the pull request holds S
DataOf(S) ==
  [reviewComments |-> Collect("reviewComment", S, 1),
   issueComments |-> Collect("issueComment", S, 1),
   reviews |-> Collect("review", S, 1)]

\* a pull request with one review thread, whose root is there throughout
\* while its two replies come and go, and with an issue comment that has
\* the root's id
ThreadItems == [always |-> {1}, maybe |-> {1, 2, 5, 6}]

\* a pull request on which anything may come and go
AnyItems == [always |-> {}, maybe |-> Items]

ProcessedOf ==
  [S \in SUBSET (Items \cup ThreadItems.maybe) |-> processComments(DataOf(S))]

WatchOptions ==
  [watchInterval : 1..MaxInterval,
   watchTimeout : 0..MaxTimeout,
   botsOnly : BOOLEAN,
   humansOnly : BOOLEAN,
   filter : {"null", "unresolved", "unanswered"}]

----------------------------------------------------------------------------
(* watchForComments *)

Terminal == {"Reporting", "IdleTimeout", "Failed"}

Event(e, n, list) == [e |-> e, n |-> n, list |-> list]

\* variant: a poll that does not consult seenIds
NewCommentsUnchecked(filtered, seen) == filtered

\* filtered.filter((c) => !seenIds.has(c.id))
NewComments(filtered, seen) ==
  LET Unseen(c) == c.id \notin seen
  IN SelectSeq(filtered, Unseen)

\* the clock ticks twice a second
Ticks(seconds) == 2 * seconds

\* a variant that rounds down
InactiveSecondsFloor(t, last) == (t - last) \div 2

\* Math.round((Date.now() - lastActivityTime) / 1000): halves round up
InactiveSeconds(t, last) == (t - last + 1) \div 2

\* variant: a strict comparison
IdleExpiredStrict(inactiveSeconds, watchTimeout) == inactiveSeconds > watchTimeout

\* variant: an exact comparison
IdleExpiredExact(inactiveSeconds, watchTimeout) == inactiveSeconds = watchTimeout

\* inactiveSeconds >= options.watchTimeout
IdleExpired(inactiveSeconds, watchTimeout) == inactiveSeconds >= watchTimeout

\* what a fetch may find on the pull request
Fetchable == {S \in SUBSET pullRequest.maybe : pullRequest.always \subseteq S}

\* type and id of the entities in a list
Keys(comments) == {<<comments[k].type, comments[k].id>> : k \in 1..Len(comments)}

\* the entities that are on the pull request throughout the watch
PinnedKeys == Keys(ProcessedOf[pullRequest.always])

\* processComments then filterComments on what a fetch returned
Pipeline(S, opts) == filterComments(ProcessedOf[S], opts)

HistInit ==
  [primingIds |-> {},     \* ids of the priming pass's filtered result
   allSame |-> TRUE,      \* every poll so far returned exactly those ids
   instant |-> TRUE,      \* priming and every poll so far took no time
   polls |-> 0,           \* polls whose fetch has returned
   pollAt |-> 0,          \* the clock when the latest of them returned
   pollUnseen |-> {},     \* ids of the latest poll's filtered result not seen
   primingHidden |-> {},  \* the entities on the pull request throughout that
                          \* the priming pass filtered out
   surfaced |-> {},       \* those of them that a poll's filtered result held
   seenBefore |-> {},     \* seenIds as the detecting poll found it
   pollFiltered |-> <<>>, \* the detecting poll's filtered result
   graceFiltered |-> <<>>]\* the grace pass's filtered result

WatchStart ==
  /\ options \in WatchOptions
  /\ pc = "Priming"
  /\ seenIds = {}
  /\ lastActivityTime = 0
  /\ pollCount = 0
  /\ newComments = <<>>
  /\ now = 0
  /\ out = <<>>
  /\ fetches = <<>>
  /\ sleeps = <<>>
  /\ hist = HistInit

WatchInit == WatchStart /\ pullRequest = AnyItems

WatchInitThread == WatchStart /\ pullRequest = ThreadItems

\* variant: a rejected fetchPRComments that is caught and tried again
FetchThrowsRetried(phase) ==
  /\ Len(fetches) < 8
  /\ fetches' = Append(fetches, [phase |-> phase, ok |-> FALSE])
  /\ UNCHANGED <<options, pullRequest, pc, seenIds, lastActivityTime, pollCount, newComments,
                 now, out, sleeps, hist>>

\* a variant that prints what it has found before it gives up
FetchThrowsReporting(phase) ==
  /\ fetches' = Append(fetches, [phase |-> phase, ok |-> FALSE])
  /\ out' = out \o (IF Len(newComments) > 0
                    THEN <<Event("formatted", Len(newComments), newComments),
                           Event("json", Len(newComments), newComments)>>
                    ELSE <<>>)
                \o <<Event("error", 1, <<>>)>>
  /\ pc' = "Failed"
  /\ UNCHANGED <<options, pullRequest, seenIds, lastActivityTime, pollCount, newComments, now,
                 sleeps, hist>>

\* a rejected fetchPRComments is not caught in watchForComments: main().catch
\* prints the error and exits with status 1
FetchThrows(phase) ==
  /\ fetches' = Append(fetches, [phase |-> phase, ok |-> FALSE])
  /\ out' = Append(out, Event("error", 1, <<>>))
  /\ pc' = "Failed"
  /\ UNCHANGED <<options, pullRequest, seenIds, lastActivityTime, pollCount, newComments, now,
                 sleeps, hist>>

\* a variant that does not record the ids of the priming pass
PrimeOkForgetful(S, d) ==
  \E initialFiltered \in {Pipeline(S, options)} :
     /\ now' = now + d
     /\ fetches' = Append(fetches, [phase |-> "priming", ok |-> TRUE])
     /\ hist' = [hist EXCEPT !.instant = @ /\ d = 0,
                             !.primingIds = Ids(initialFiltered),
                             !.primingHidden = PinnedKeys \ Keys(initialFiltered)]
     /\ seenIds' = seenIds
     /\ out' = out \o <<Event("initial", Len(initialFiltered), <<>>)>>
                   \o (IF Len(initialFiltered) > 0
                       THEN <<Event("existing", Len(initialFiltered), initialFiltered)>>
                       ELSE <<>>)
     /\ pc' = "Sleeping"
     /\ UNCHANGED <<options, pullRequest, lastActivityTime, pollCount, newComments, sleeps>>

PrimeOk(S, d) ==
  \E initialFiltered \in {Pipeline(S, options)} :
     /\ now' = now + d
     /\ fetches' = Append(fetches, [phase |-> "priming", ok |-> TRUE])
     /\ hist' = [hist EXCEPT !.instant = @ /\ d = 0,
                             !.primingIds = Ids(initialFiltered),
                             !.primingHidden = PinnedKeys \ Keys(initialFiltered)]
     /\ seenIds' = seenIds \cup Ids(initialFiltered)
     /\ out' = out \o <<Event("initial", Len(initialFiltered), <<>>)>>
                   \o (IF Len(initialFiltered) > 0
                       THEN <<Event("existing", Len(initialFiltered), initialFiltered)>>
                       ELSE <<>>)
     /\ pc' = "Sleeping"
     /\ UNCHANGED <<options, pullRequest, lastActivityTime, pollCount, newComments, sleeps>>

Prime ==
  /\ pc = "Priming"
  /\ \/ \E S \in Fetchable, d \in 0..MaxFetchTicks : PrimeOk(S, d)
     \/ FetchThrows("priming")
  /\ UNCHANGED <<pageVars, replyVars, pureVars, callVars>>

\* No run of the loop polls more often than this: the idle check ends the loop
\* at the latest when MaxTimeout seconds have passed, and every sleep takes a
\* second or more (C4_Terminates checks that this cap never stops a run).
PollCap == MaxTimeout + 2

\* variant: a loop that starts over after the timeout summary
SleepRestarts ==
  /\ pc \in {"Sleeping", "IdleTimeout"}
  /\ pollCount < PollCap
  /\ sleeps' = Append(sleeps, options.watchInterval)
  /\ now' = now + Ticks(options.watchInterval)
  /\ pollCount' = pollCount + 1
  /\ pc' = "Polling"
  /\ UNCHANGED <<options, pullRequest, seenIds, lastActivityTime, newComments, out, fetches, hist>>
  /\ UNCHANGED <<pageVars, replyVars, pureVars, callVars>>

\* a variant that counts every poll twice
SleepCountsTwice ==
  /\ pc = "Sleeping"
  /\ pollCount < PollCap
  /\ sleeps' = Append(sleeps, options.watchInterval)
  /\ now' = now + Ticks(options.watchInterval)
  /\ pollCount' = pollCount + 2
  /\ pc' = "Polling"
  /\ UNCHANGED <<options, pullRequest, seenIds, lastActivityTime, newComments, out, fetches, hist>>
  /\ UNCHANGED <<pageVars, replyVars, pureVars, callVars>>

\* await sleep(options.watchInterval); pollCount++
Sleep ==
  /\ pc = "Sleeping"
  /\ pollCount < PollCap
  /\ sleeps' = Append(sleeps, options.watchInterval)
  /\ now' = now + Ticks(options.watchInterval)
  /\ pollCount' = pollCount + 1
  /\ pc' = "Polling"
  /\ UNCHANGED <<options, pullRequest, seenIds, lastActivityTime, newComments, out, fetches, hist>>
  /\ UNCHANGED <<pageVars, replyVars, pureVars, callVars>>

PollOk(S, d) ==
  \E filtered \in {Pipeline(S, options)} :
  \E found \in {NewComments(filtered, seenIds)} :
  \E inactiveSeconds \in {InactiveSeconds(now + d, lastActivityTime)} :
     /\ now' = now + d
     /\ fetches' = Append(fetches, [phase |-> "poll", ok |-> TRUE])
     /\ IF Len(found) > 0
        THEN /\ seenIds' = seenIds \cup Ids(found)
             /\ newComments' = found
             /\ out' = Append(out, Event("detected", Len(found), <<>>))
             /\ pc' = "GraceSleep"
             /\ hist' = [hist EXCEPT !.instant = @ /\ d = 0,
                                     !.allSame = @ /\ Ids(filtered) = hist.primingIds,
                                     !.polls = @ + 1,
                                     !.pollAt = now + d,
                                     !.pollUnseen = Ids(filtered) \ seenIds,
                                     !.surfaced =
                                        @ \cup (hist.primingHidden \cap Keys(filtered)),
                                     !.seenBefore = seenIds,
                                     !.pollFiltered = filtered]
        ELSE /\ UNCHANGED <<seenIds, newComments>>
             /\ hist' = [hist EXCEPT !.instant = @ /\ d = 0,
                                     !.allSame = @ /\ Ids(filtered) = hist.primingIds,
                                     !.polls = @ + 1,
                                     !.pollAt = now + d,
                                     !.pollUnseen = Ids(filtered) \ seenIds,
                                     !.surfaced =
                                        @ \cup (hist.primingHidden \cap Keys(filtered))]
             /\ IF IdleExpired(inactiveSeconds, options.watchTimeout)
                THEN /\ out' = out \o <<Event("no new", inactiveSeconds, <<>>),
                                        Event("complete", Cardinality(seenIds), <<>>)>>
                     /\ pc' = "IdleTimeout"
                ELSE /\ out' = Append(out, Event("no new", inactiveSeconds, <<>>))
                     /\ pc' = "Sleeping"
     /\ UNCHANGED <<options, pullRequest, lastActivityTime, pollCount, sleeps>>

Poll ==
  /\ pc = "Polling"
  /\ \/ \E S \in Fetchable, d \in 0..MaxFetchTicks : PollOk(S, d)
     \/ FetchThrows("poll")
  /\ UNCHANGED <<pageVars, replyVars, pureVars, callVars>>

\* await sleep(5)
GraceSleep ==
  /\ pc = "GraceSleep"
  /\ sleeps' = Append(sleeps, GraceSeconds)
  /\ now' = now + Ticks(GraceSeconds)
  /\ pc' = "GraceFetch"
  /\ UNCHANGED <<options, pullRequest, seenIds, lastActivityTime, pollCount, newComments, out,
                 fetches, hist>>
  /\ UNCHANGED <<pageVars, replyVars, pureVars, callVars>>

GraceOk(S) ==
  \E graceFiltered \in {Pipeline(S, options)} :
  \E lateComments \in {NewComments(graceFiltered, seenIds)} :
  \E all \in {newComments \o lateComments} :
     /\ fetches' = Append(fetches, [phase |-> "grace", ok |-> TRUE])
     /\ hist' = [hist EXCEPT !.graceFiltered = graceFiltered]
     /\ seenIds' = seenIds \cup Ids(lateComments)
     /\ newComments' = all
     /\ out' = out \o (IF Len(lateComments) > 0
                       THEN <<Event("caught", Len(lateComments), <<>>)>>
                       ELSE <<>>)
                   \o <<Event("formatted", Len(all), all),
                        Event("json", Len(all), all),
                        Event("exiting", Len(all), <<>>)>>
     /\ pc' = "Reporting"
     /\ UNCHANGED <<options, pullRequest, lastActivityTime, pollCount, now, sleeps>>

GraceFetch ==
  /\ pc = "GraceFetch"
  /\ \/ \E S \in Fetchable : GraceOk(S)
     \/ FetchThrows("grace")
  /\ UNCHANGED <<pageVars, replyVars, pureVars, callVars>>

WatchNext == Prime \/ Sleep \/ Poll \/ GraceSleep \/ GraceFetch

WatchRest ==
  /\ options = [watchInterval |-> 1, watchTimeout |-> 0, botsOnly |-> FALSE,
                humansOnly |-> FALSE, filter |-> "null"]
  /\ pullRequest = AnyItems
  /\ pc = "Rest"
  /\ seenIds = {}
  /\ lastActivityTime = 0
  /\ pollCount = 0
  /\ newComments = <<>>
  /\ now = 0
  /\ out = <<>>
  /\ fetches = <<>>
  /\ sleeps = <<>>
  /\ hist = HistInit

Init == WatchInit /\ PagesRest /\ ReplyRest /\ PureRest /\ CallRest

Next == WatchNext

Spec == Init /\ [][Next]_vars

\* The event loop runs every timer and every settled promise's continuation,
\* and every fetch settles: a step that stays possible is taken.
SpecFair == Spec /\ WF_vars(Next)

InitThread == WatchInitThread /\ PagesRest /\ ReplyRest /\ PureRest /\ CallRest

SpecThread == InitThread /\ [][Next]_vars

InitPages == PagesInit /\ WatchRest /\ ReplyRest /\ PureRest /\ CallRest

SpecPages == InitPages /\ [][PagesNext]_vars

InitReply == ReplyInit /\ WatchRest /\ PagesRest /\ PureRest /\ CallRest

SpecReply == InitReply /\ [][ReplyNext]_vars

InitProcess ==
  ProcessInit /\ WatchRest /\ PagesRest /\ ReplyRest /\ FilterRest /\ CleanRest
  /\ CallRest

SpecProcess == InitProcess /\ [][ProcessNext]_vars

InitFilter ==
  FilterInit /\ WatchRest /\ PagesRest /\ ReplyRest /\ ProcessRest /\ CleanRest
  /\ CallRest

SpecFilter == InitFilter /\ [][FilterNext]_vars

InitClean ==
  CleanInit /\ WatchRest /\ PagesRest /\ ReplyRest /\ ProcessRest /\ FilterRest
  /\ CallRest

SpecClean == InitClean /\ [][CleanNext]_vars

InitBot ==
  BotInit /\ WatchRest /\ PagesRest /\ ReplyRest /\ PureRest /\ MainRest /\ JoinRest

SpecBot == InitBot /\ [][BotNext]_vars

InitMain ==
  MainInit /\ WatchRest /\ PagesRest /\ ReplyRest /\ PureRest /\ BotRest /\ JoinRest

SpecMain == InitMain /\ [][MainNext]_vars

InitJoin ==
  JoinInit /\ WatchRest /\ PagesRest /\ ReplyRest /\ PureRest /\ BotRest /\ MainRest

SpecJoin == InitJoin /\ [][JoinNext]_vars

----------------------------------------------------------------------------
(* What the claims about the watch loop read off a state *)

EventsOf(e) ==
  LET Is(x) == x.e = e
  IN SelectSeq(out, Is)

FetchesOf(phase) ==
  LET Is(x) == x.phase = phase
  IN SelectSeq(fetches, Is)

FailedFetches == {k \in 1..Len(fetches) : ~fetches[k].ok}

Detected == Len(EventsOf("detected")) > 0

\* the reported list: the array printed as JSON
Reported == EventsOf("json")[1].list

NoDuplicateIds(list) ==
  \A a, b \in 1..Len(list) : a # b => list[a].id # list[b].id

\* ticks between the start of the watch and the end of the latest poll's fetch
Elapsed == hist.pollAt - lastActivityTime

\* the loop has gone on after its latest poll
GoneOn == hist.polls >= 1 /\ pc \in {"Sleeping", "Polling"}

Ceil(a, b) == (a + b - 1) \div b

----------------------------------------------------------------------------
(* C1: in every run that reaches Reporting the reported list holds no id   *)
(* twice, and no reported id was in the seen-set before the detecting      *)
(* poll.  The first half fails when a review comment and an issue comment  *)
(* that share an id (see Pool) are new in the same pass.                   *)
C1_DetectedOnce ==
  pc = "Reporting" =>
    /\ NoDuplicateIds(Reported)
    /\ Ids(Reported) \cap hist.seenBefore = {}

----------------------------------------------------------------------------
(* C2 *)

\* what the claim says the run ends with once a poll has found an unseen id
C2_Outcome ==
  LET FirstPass(c) == c.id \notin hist.seenBefore
      first == SelectSeq(hist.pollFiltered, FirstPass)
      StillUnseen(c) == c.id \notin (hist.seenBefore \cup Ids(first))
      late == SelectSeq(hist.graceFiltered, StillUnseen)
  IN /\ pc = "Reporting"
     /\ Len(FetchesOf("grace")) = 1
     /\ fetches[Len(fetches)].phase = "grace"
     /\ fetches[Len(fetches) - 1].phase = "poll"
     /\ Len(FetchesOf("poll")) = pollCount
     /\ Len(EventsOf("json")) = 1
     /\ Len(EventsOf("formatted")) = 1
     /\ Reported = first \o late
     /\ EventsOf("formatted")[1].list = Reported
     /\ Ids(Reported) \subseteq seenIds

\* C2 as claimed: after a poll finds an unseen id the loop performs exactly
\* one grace re-fetch and no more polls, reports the unseen entities of the
\* detecting poll followed by the still unseen entities of the grace pass,
\* has every reported id in the seen-set, and ends in Reporting.
C2_EndsInReporting == (Detected /\ pc \in Terminal) => C2_Outcome

\* C2 as amended: the same, unless the grace re-fetch fails; then the run
\* ends abnormally after that one grace re-fetch and reports nothing.  In
\* both cases the run does end once a poll has detected something.
C2_GraceThenReporting ==
  /\ [](Detected =>
          /\ Len(FetchesOf("grace")) <= 1
          /\ Len(FetchesOf("poll")) = pollCount
          /\ FetchesOf("poll")[pollCount] = fetches[Len(fetches) - Len(FetchesOf("grace"))])
  /\ []((Detected /\ pc \in Terminal) =>
          \/ C2_Outcome
          \/ /\ pc = "Failed"
             /\ Len(FetchesOf("grace")) = 1
             /\ ~fetches[Len(fetches)].ok
             /\ fetches[Len(fetches)].phase = "grace"
             /\ Len(EventsOf("json")) = 0
             /\ Len(EventsOf("formatted")) = 0)
  /\ (Detected ~> pc \in {"Reporting", "Failed"})

\* a run in which the grace pass added an entity to the report
C2_LateCommentReported ==
  /\ pc = "Reporting"
  /\ Len(EventsOf("caught")) = 1
  /\ Len(Reported) = EventsOf("detected")[1].n + EventsOf("caught")[1].n

----------------------------------------------------------------------------
(* C3 *)

\* C3 as claimed: when every poll returns the ids of priming the loop never
\* enters GraceCheck, reports nothing, and stops in Idle-Timeout at the first
\* poll at which the time since the start is at least the timeout (it goes
\* on after a poll only if that time is less); with fetches that take no
\* time that is after ceil(timeout / interval) polls.
C3_IdleAtTimeout ==
  /\ hist.allSame => /\ pc \notin {"GraceSleep", "GraceFetch", "Reporting"}
                     /\ ~Detected
  /\ (GoneOn /\ hist.allSame) => Elapsed < Ticks(options.watchTimeout)
  /\ (pc = "IdleTimeout" /\ hist.allSame) =>
       /\ Elapsed >= Ticks(options.watchTimeout)
       /\ hist.instant => pollCount = Ceil(options.watchTimeout, options.watchInterval)

\* elapsed time in whole seconds, halves rounded up, is at least the timeout
RoundedReaches(ticks, seconds) == ticks + 1 >= Ticks(seconds)

\* C3 as amended: the idle time compared with the timeout is the elapsed time
\* rounded to the nearest second, so the loop may stop up to half a second
\* before the timeout has passed, and it polls at least once: with fetches
\* that take no time it stops after max(1, ceil(timeout / interval)) polls.
C3_IdleAtRoundedTimeout ==
  /\ [](hist.allSame => /\ pc \notin {"GraceSleep", "GraceFetch", "Reporting"}
                        /\ ~Detected
                        /\ Len(EventsOf("json")) = 0)
  /\ []((GoneOn /\ hist.allSame) => ~RoundedReaches(Elapsed, options.watchTimeout))
  /\ []((pc = "IdleTimeout" /\ hist.allSame) =>
          /\ pollCount >= 1
          /\ hist.polls = pollCount
          /\ RoundedReaches(Elapsed, options.watchTimeout)
          /\ hist.instant =>
               pollCount = (IF options.watchTimeout = 0 THEN 1
                            ELSE Ceil(options.watchTimeout, options.watchInterval)))
  /\ <>(pc = "IdleTimeout" \/ ~hist.allSame \/ FailedFetches # {})

\* an idle run that stopped before the timeout had passed in full
C3_StoppedHalfSecondEarly ==
  /\ pc = "IdleTimeout"
  /\ hist.allSame
  /\ hist.primingIds # {}
  /\ hist.polls = pollCount
  /\ Elapsed < Ticks(options.watchTimeout)

----------------------------------------------------------------------------
(* C4: with a positive interval and a finite timeout >= 0, a run in which  *)
(* every fetch succeeds ends, and ends in Reporting or in Idle-Timeout;    *)
(* it stops nowhere else (the cap on polls never stops it).                *)
C4_Terminates ==
  /\ <>(pc \in {"Reporting", "IdleTimeout"} \/ FailedFetches # {})
  /\ []((pc \in Terminal /\ FailedFetches = {}) => pc \in {"Reporting", "IdleTimeout"})
  /\ [](pc \notin Terminal => ENABLED Next)

\* a run without a failed fetch that ended idle after several polls
C4_EndedAfterPolls ==
  /\ pc = "IdleTimeout"
  /\ FailedFetches = {}
  /\ pollCount >= 2

----------------------------------------------------------------------------
(* C5: Reporting and Idle-Timeout are terminal: nothing is fetched, slept  *)
(* or printed after either, the list is reported once at most, and no run  *)
(* reaches both.                                                           *)
C5_TerminalStates ==
  /\ [][(pc \in {"Reporting", "IdleTimeout"}) => watchVars' = watchVars]_vars
  /\ [](Len(EventsOf("json")) + Len(EventsOf("complete")) <= 1)
  /\ [](pc = "Reporting" <=> Len(EventsOf("json")) = 1)
  /\ [](pc = "IdleTimeout" <=> Len(EventsOf("complete")) = 1)

\* the timeout summary has been printed after more than one poll
C5_SummaryPrinted ==
  /\ pc = "IdleTimeout"
  /\ Len(EventsOf("complete")) = 1
  /\ Len(sleeps) >= 2

----------------------------------------------------------------------------
(* C6: a fetch that fails in Priming, Polling or GraceCheck is not caught: *)
(* it is the invocation's last call, the run ends abnormally, and neither  *)
(* a report nor the timeout summary is printed.                            *)
C6_FetchFailureAborts ==
  /\ [](FailedFetches # {} =>
          /\ FailedFetches = {Len(fetches)}
          /\ pc = "Failed"
          /\ out[Len(out)].e = "error"
          /\ Len(EventsOf("json")) = 0
          /\ Len(EventsOf("complete")) = 0)
  /\ [](pc = "Failed" => FailedFetches # {})
  /\ [][(pc = "Failed") => watchVars' = watchVars]_vars

\* the grace re-fetch failed after a detection
C6_GraceFetchFailed ==
  /\ pc = "Failed"
  /\ Detected
  /\ fetches[Len(fetches)].phase = "grace"

----------------------------------------------------------------------------
(* C24 *)

\* the latest fetch was a poll's and succeeded: what the loop does next is
\* that poll's decision
AfterPoll ==
  /\ fetches # <<>>
  /\ fetches[Len(fetches)].phase = "poll"
  /\ fetches[Len(fetches)].ok

\* C24 as claimed: a poll that finds an id not seen goes to the grace check,
\* whatever the idle time; one that finds none stops in Idle-Timeout exactly
\* when the time since the start of the watch is at least the timeout, and
\* otherwise sleeps the interval and polls again; Idle-Timeout is reached
\* only from a poll that found no unseen id.
C24_PollDecides ==
  /\ lastActivityTime = 0
  /\ AfterPoll =>
       IF hist.pollUnseen # {} THEN pc \in {"GraceSleep", "GraceFetch"}
       ELSE IF Elapsed >= Ticks(options.watchTimeout) THEN pc = "IdleTimeout"
       ELSE pc \in {"Sleeping", "Polling"}
  /\ pc = "IdleTimeout" => AfterPoll /\ hist.pollUnseen = {} /\ ~Detected
  /\ \A k \in 1..pollCount : sleeps[k] = options.watchInterval

\* C24 as amended: the same, with the idle time that is compared with the
\* timeout being the time since the start of the watch rounded to the
\* nearest second, halves up.
C24_PollDecidesRounded ==
  /\ lastActivityTime = 0
  /\ AfterPoll =>
       IF hist.pollUnseen # {} THEN pc \in {"GraceSleep", "GraceFetch"}
       ELSE IF RoundedReaches(Elapsed, options.watchTimeout) THEN pc = "IdleTimeout"
       ELSE pc \in {"Sleeping", "Polling"}
  /\ pc = "IdleTimeout" => AfterPoll /\ hist.pollUnseen = {} /\ ~Detected
  /\ \A k \in 1..pollCount : sleeps[k] = options.watchInterval

\* a later poll found an unseen id when the timeout had passed, and the loop
\* went to the grace check
C24_GraceAfterTimeout ==
  /\ pc = "GraceSleep"
  /\ pollCount >= 2
  /\ hist.pollUnseen # {}
  /\ options.watchTimeout >= 1
  /\ Elapsed >= Ticks(options.watchTimeout)

----------------------------------------------------------------------------
(* C25: priming fetches, normalizes and filters once, before the first     *)
(* poll; when it is done the seen-set is exactly the ids of its filtered   *)
(* result and no poll has been counted; and no id of that result is in the *)
(* list reported later.                                                    *)
C25_PrimingSeen ==
  /\ [](fetches # <<>> =>
          /\ fetches[1].phase = "priming"
          /\ Len(FetchesOf("priming")) = 1)
  /\ [](pc = "Priming" => fetches = <<>> /\ sleeps = <<>> /\ seenIds = {})
  /\ [][(pc = "Priming" /\ pc' = "Sleeping") =>
          /\ seenIds' = hist'.primingIds
          /\ pollCount' = 0
          /\ out'[1].e = "initial"
          /\ sleeps' = <<>>]_vars
  /\ [](pc \notin {"Priming", "Failed"} => hist.primingIds \subseteq seenIds)
  /\ [](pc = "Reporting" => Ids(Reported) \cap hist.primingIds = {})

\* the detecting poll's filtered result held an entity of the priming
\* result, which is not in the report
C25_KnownEntityNotReported ==
  /\ pc = "Reporting"
  /\ Ids(hist.pollFiltered) \cap hist.primingIds # {}
  /\ Ids(Reported) \cap hist.primingIds = {}
  /\ Reported # <<>>

----------------------------------------------------------------------------
(* C28: the seen-set only grows, and every id in it was in the filtered    *)
(* result of the priming pass, of a poll or of the grace pass; the poll    *)
(* counter goes up by one with every poll and with nothing else.           *)
C28_SeenGrowsPollsCounted ==
  /\ [][seenIds \subseteq seenIds']_vars
  /\ [](seenIds \subseteq
          hist.primingIds \cup Ids(hist.pollFiltered) \cup Ids(hist.graceFiltered))
  /\ [][pollCount' # pollCount =>
          /\ pollCount' = pollCount + 1
          /\ pc = "Sleeping"
          /\ pc' = "Polling"]_vars
  /\ [](Len(FetchesOf("poll")) = (IF pc = "Polling" THEN pollCount - 1 ELSE pollCount))
  /\ [](pc = "Priming" => pollCount = 0)

\* the seen-set took an id from the priming pass and another from the
\* second poll
C28_SeenFromTwoPasses ==
  /\ pc = "Reporting"
  /\ pollCount = 2
  /\ hist.primingIds # {}
  /\ hist.pollUnseen # {}
  /\ seenIds = hist.primingIds \cup hist.pollUnseen

----------------------------------------------------------------------------
(* C29: when the grace re-fetch fails after a poll has found unseen        *)
(* entities, the run ends abnormally and the entities found are printed    *)
(* neither formatted nor as JSON, although their ids went into the         *)
(* seen-set before the grace period began.                                 *)
C29_GraceFailureLosesReport ==
  /\ [](pc \in {"GraceSleep", "GraceFetch"} =>
          /\ hist.pollUnseen # {}
          /\ hist.pollUnseen = Ids(newComments)
          /\ hist.pollUnseen \subseteq seenIds
          /\ hist.pollUnseen \cap hist.seenBefore = {})
  /\ []((pc = "Failed" /\ Detected) =>
          /\ fetches[Len(fetches)] = [phase |-> "grace", ok |-> FALSE]
          /\ out[Len(out)].e = "error"
          /\ Len(EventsOf("formatted")) = 0
          /\ Len(EventsOf("json")) = 0
          /\ \A k \in 1..Len(out) : out[k].e = "existing" \/ out[k].list = <<>>
          /\ hist.pollUnseen # {}
          /\ hist.pollUnseen \subseteq seenIds)
  /\ [][(pc = "Failed") => watchVars' = watchVars]_vars

\* the grace re-fetch failed after a second poll had found an unseen
\* entity next to a known one
C29_FoundThenFailed ==
  /\ pc = "Failed"
  /\ Len(FetchesOf("grace")) = 1
  /\ hist.primingIds # {}
  /\ Len(newComments) >= 1
  /\ Ids(newComments) \subseteq seenIds
  /\ pollCount = 2

----------------------------------------------------------------------------
(* C30: what is new is decided on the ids of the filtered result alone:   *)
(* an entity that was on the pull request at priming and was filtered out  *)
(* then is detected by the first later poll in whose filtered result it    *)
(* stands, and it is in the report; an entity of the priming result that   *)
(* leaves the filtered result and comes back is not reported.  The first   *)
(* half fails when an entity of another kind with the same id (see C11)    *)
(* was in the priming result.                                              *)
C30_HiddenEntityReported ==
  /\ hist.surfaced # {} => Detected
  /\ pc = "Reporting" =>
       /\ hist.surfaced \subseteq Keys(Reported)
       /\ Ids(Reported) \cap hist.primingIds = {}

\* What does hold: until a poll finds something the seen-set is the ids of
\* the priming pass's filtered result; the first poll in whose filtered
\* result an unseen id stands detects it; the report holds those ids and no
\* id of the priming result.
C30_NewnessByFilteredIds ==
  /\ []((~Detected /\ pc \notin {"Priming", "Failed"}) => seenIds = hist.primingIds)
  /\ []((~Detected /\ FailedFetches = {}) => hist.pollUnseen = {})
  /\ [](AfterPoll => (hist.pollUnseen # {} <=> Detected))
  /\ [](Detected => hist.pollUnseen = Ids(hist.pollFiltered) \ hist.primingIds)
  /\ [](pc = "Reporting" =>
          /\ hist.pollUnseen \subseteq Ids(Reported)
          /\ Ids(Reported) \cap hist.primingIds = {}
          /\ Ids(Reported) \subseteq
               (Ids(hist.pollFiltered) \cup Ids(hist.graceFiltered)) \ hist.primingIds)

\* the thread root was on the pull request at priming with a reply, which
\* kept it out of the unanswered comments; the second poll found it without
\* a reply and it was reported
C30_HiddenThenReported ==
  /\ pc = "Reporting"
  /\ pullRequest.always = {1}
  /\ options.filter = "unanswered"
  /\ hist.primingIds = {}
  /\ pollCount = 2
  /\ Ids(Reported) = {Pool[1].item.id}
  /\ ~Reported[1].hasAnyReply

----------------------------------------------------------------------------
(* What the claims about fetchAllPages and replyToComment read off a state *)

\* the url of the first entry whose relation is "next"; Null when none is
NextOf(entries) ==
  LET K == {k \in 1..Len(entries) : entries[k].rel = RelNext}
  IN IF K = {} THEN Null ELSE entries[Min(K)].url

RECURSIVE Chain(_, _)
\* the pages linked by "next" from u on, at most n of them
Chain(u, n) ==
  IF n = 0 THEN <<>>
  ELSE CHOOSE chain \in {<<u>> \o (IF next = Null THEN <<>> ELSE Chain(next, n - 1)) :
                         next \in {NextOf(links[u])}} : TRUE

\* the chain from the first page on; it has more than MaxPages pages when it
\* comes back to one of its pages and so has no end
ChainOf == Chain(UrlOf(1), MaxPages + 1)

RECURSIVE Contents(_)
\* the contents of the pages urls, one after the other
Contents(urls) ==
  IF urls = <<>> THEN <<>> ELSE PageData(Head(urls)) \o Contents(Tail(urls))

Requested == [k \in 1..Len(requests) |-> requests[k].url]

AllOk == \A k \in 1..Len(requests) : Ok(requests[k].status)

\* a response arrived and its status is not a success
NonSuccess(status) == status # 0 /\ ~Ok(status)

LastPost == posts[Len(posts)]

BothNonSuccess ==
  Len(posts) = 2 /\ NonSuccess(posts[1].status) /\ NonSuccess(posts[2].status)

----------------------------------------------------------------------------
(* C7: over a finite chain of pages linked by "next", as long as every     *)
(* request succeeds, fetchAllPages requests the pages of the chain once    *)
(* each and in chain order, gathers their contents in that order, returns  *)
(* exactly when it has requested the page without a "next" link, and       *)
(* returns the contents of the whole chain.                                *)
C7_PagesInChainOrder ==
  \A chain \in {ChainOf} :
    (pst # "Rest" /\ Len(chain) <= MaxPages /\ AllOk) =>
      /\ Len(requests) <= Len(chain)
      /\ Requested = SubSeq(chain, 1, Len(requests))
      /\ \A a, b \in 1..Len(requests) : a # b => requests[a].url # requests[b].url
      /\ results = Contents(Requested)
      /\ pst \in {"Requesting", "Returned"}
      /\ pst = "Returned" <=> Len(requests) = Len(chain)
      /\ pst = "Returned" => returned = Contents(chain)
      /\ pst = "Requesting" => Len(requests) < MaxRequests  \* the loop goes on

\* a chain of three pages, the second of which also links back, was returned
C7_ThreePagesReturned ==
  /\ pst = "Returned"
  /\ Len(requests) = 3
  /\ Len(links[requests[2].url]) = 2
  /\ Len(returned) = 3

----------------------------------------------------------------------------
(* C8 *)

\* C8 as claimed: a page request answered with a non-success status makes
\* the call fail with an error that carries the status and the url; nothing
\* is returned and no request follows the failing one.
C8_FailureCarriesStatusAndUrl ==
  \A k \in 1..Len(requests) :
    NonSuccess(requests[k].status) =>
      /\ k = Len(requests)
      /\ pst = "Failed"
      /\ returned = <<>>
      /\ Includes(thrown, DigitsOf(requests[k].status))
      /\ Includes(thrown, requests[k].url)

\* C8 as amended: the error carries the status and not the url; nothing is
\* returned and no request follows the failing one.
C8_FailureCarriesStatusOnly ==
  /\ \A k \in 1..Len(requests) :
       NonSuccess(requests[k].status) =>
         /\ k = Len(requests)
         /\ pst = "Failed"
         /\ returned = <<>>
         /\ EndsWith(thrown, <<":", " ">> \o DigitsOf(requests[k].status))
         /\ ~Includes(thrown, requests[k].url)
  /\ pst = "Returned" => AllOk
  /\ pst = "Failed" => ~Ok(requests[Len(requests)].status)

\* the third page failed after two pages with items had been gathered
C8_FailedAfterPages ==
  /\ pst = "Failed"
  /\ Len(requests) = 3
  /\ NonSuccess(requests[3].status)
  /\ Len(results) = 3

----------------------------------------------------------------------------
(* C9: replyToComment posts to the inline reply endpoint first, with the   *)
(* message as it is; it posts the fallback, whose body is the message      *)
(* after a reference to the comment id, exactly when the first post was    *)
(* answered with a non-success status, and after it; after a successful    *)
(* first post nothing more is posted; no call has two successful posts.    *)
C9_InlineThenFallback ==
  rst # "Rest" =>
    /\ Len(posts) <= 2
    /\ Len(posts) = 0 <=> rst = "Inline"
    /\ Len(posts) >= 1 =>
         /\ posts[1].endpoint = "replies"
         /\ posts[1].commentId = commentId
         /\ posts[1].body = message
         /\ NonSuccess(posts[1].status) <=> (rst = "Fallback" \/ Len(posts) = 2)
         /\ Ok(posts[1].status) => Len(posts) = 1 /\ rst \in {"Returned", "Failed"}
    /\ rst = "Fallback" => Len(posts) = 1 /\ ENABLED PostFallback
    /\ Len(posts) = 2 =>
         /\ posts[2].endpoint = "issues"
         /\ posts[2].body =
              <<">"," ","R","e",":"," ","c","o","m","m","e","n","t"," ">>
                \o DigitsOf(commentId) \o <<"\n","\n">> \o message
         /\ rst \in {"Returned", "Failed"}
    /\ Cardinality({k \in 1..Len(posts) : Ok(posts[k].status)}) <= 1

\* the fallback was posted and made the reply
C9_FallbackPosted ==
  /\ rst = "Returned"
  /\ Len(posts) = 2
  /\ Ok(posts[2].status)
  /\ replied # <<>>

----------------------------------------------------------------------------
(* C10 *)

\* C10 as claimed: the call fails exactly when both posts were answered
\* with non-success statuses, and the failure carries both status codes.
C10_FailsWithBothStatuses ==
  rst \in {"Returned", "Failed"} =>
    /\ rst = "Failed" <=> BothNonSuccess
    /\ rst = "Failed" =>
         /\ Includes(replyThrown, DigitsOf(posts[1].status))
         /\ Includes(replyThrown, DigitsOf(LastPost.status))

\* C10 as amended: the call fails when both posts were answered with
\* non-success statuses, and that failure carries the status and the
\* response text of the fallback post only; it also fails, with no status,
\* when a post is rejected or when the body of a successful response cannot
\* be parsed; in every other case it returns.
C10_FailsWithFallbackStatus ==
  rst \in {"Returned", "Failed"} =>
    /\ rst = "Failed" <=>
         \/ BothNonSuccess
         \/ LastPost.status = 0
         \/ Ok(LastPost.status) /\ replied = <<>>
    /\ BothNonSuccess =>
         /\ \E text \in ErrorTexts :
              replyThrown =
                <<"F","a","i","l","e","d"," ","t","o"," ","r","e","p","l","y",":"," ">>
                  \o DigitsOf(posts[2].status) \o <<" ","-"," ">> \o text
         /\ posts[1].status # posts[2].status =>
              ~Includes(replyThrown, DigitsOf(posts[1].status))
    /\ LastPost.status = 0 => replyThrown = NetworkError
    /\ (rst = "Failed" /\ Ok(LastPost.status)) => replyThrown = JsonError
    /\ rst = "Returned" => Ok(LastPost.status) /\ replied = <<LastPost>> /\ replyThrown = <<>>

\* both posts were answered with different non-success statuses
C10_BothPostsFailed ==
  /\ rst = "Failed"
  /\ BothNonSuccess
  /\ posts[1].status # posts[2].status

----------------------------------------------------------------------------
----------------------------------------------------------------------------
(* processComments: C11 to C16 *)

\* the entities of one type in the returned sequence
OfType(type) ==
  LET Is(e) == e.type = type IN SelectSeq(processed, Is)

(* C11: the sequence processComments returns holds no two entities with    *)
(* the same id, of the same kind or of different kinds.  The code copies   *)
(* each raw id, and the three collections are numbered independently.      *)
C11_IdsUnique ==
  prs = "Returned" =>
    \A i, j \in 1..Len(processed) :
      i # j => processed[i].id # processed[j].id

\* the raw review comments that declare a parent
RawReplyComments ==
  LET IsReply(c) == c.in_reply_to_id # 0
  IN SelectSeq(rawData.reviewComments, IsReply)

\* where the raw comment c stands as a reply: <<entity, position>> pairs
PlacesOf(c) ==
  {p \in (1..Len(processed)) \X (1..MaxRaw) :
     /\ p[2] <= Len(processed[p[1]].replies)
     /\ processed[p[1]].replies[p[2]].id = c.id}

\* the thread root with this id was emitted
EmittedRoot(id) ==
  \E i \in 1..Len(processed) :
    processed[i].type = "review_comment" /\ processed[i].id = id

(* C12: a reply stands under at most one entity, the emitted thread root   *)
(* whose id is the reply's in_reply_to_id, and it stands there once; a     *)
(* reply whose parent is no emitted thread root stands nowhere, neither    *)
(* as a reply nor as an entity of its own.                                 *)
C12_RepliesUnderParent ==
  prs = "Returned" =>
    \A k \in 1..Len(RawReplyComments) :
      \E c \in {RawReplyComments[k]} :
        /\ \A p \in PlacesOf(c) :
             /\ processed[p[1]].type = "review_comment"
             /\ processed[p[1]].id = c.in_reply_to_id
        /\ Cardinality(PlacesOf(c)) =
             (IF EmittedRoot(c.in_reply_to_id) THEN 1 ELSE 0)
        /\ ~EmittedRoot(c.id)

\* a reply to a thread root that was left out as a meta comment is dropped
\* from a result that holds other entities
C12_OrphanDropped ==
  /\ prs = "Returned"
  /\ \E k \in 1..Len(RawReplyComments) :
       \E c \in {RawReplyComments[k]} :
         /\ \E j \in 1..Len(rawData.reviewComments) :
              /\ rawData.reviewComments[j].id = c.in_reply_to_id
              /\ rawData.reviewComments[j].in_reply_to_id = 0
         /\ ~EmittedRoot(c.in_reply_to_id)
         /\ PlacesOf(c) = {}
  /\ processed # <<>>

\* type and id of every raw item in the order processComments walks them:
\* review comments, then issue comments, then reviews
RawKeys ==
  [k \in 1..Len(rawData.reviewComments) |->
     <<"review_comment", rawData.reviewComments[k].id>>]
  \o [k \in 1..Len(rawData.issueComments) |->
        <<"issue_comment", rawData.issueComments[k].id>>]
  \o [k \in 1..Len(rawData.reviews) |->
        <<"review", rawData.reviews[k].id>>]

KeyOf(e) == <<e.type, e.id>>

\* the emitted entities in the order they were pushed
PushOrder ==
  LET Emitted(key) == \E i \in 1..Len(processed) : KeyOf(processed[i]) = key
  IN SelectSeq(RawKeys, Emitted)

PushedAt(e) == CHOOSE k \in 1..Len(PushOrder) : PushOrder[k] = KeyOf(e)

(* C13: the returned sequence is the stable sort, newest first, of the     *)
(* emitted entities in push order (thread roots, issue comments, reviews,  *)
(* each in input order): it holds each pushed entity once, createdAt never *)
(* increases along it, and entities of one createdAt keep the push order.  *)
C13_StableNewestFirst ==
  prs = "Returned" =>
    /\ Len(processed) = Len(PushOrder)
    /\ \A i, j \in 1..Len(processed) :
         i < j =>
           /\ processed[i].createdAt >= processed[j].createdAt
           /\ processed[i].createdAt = processed[j].createdAt
                => PushedAt(processed[i]) < PushedAt(processed[j])

\* the sort moved a later pushed entity ahead and kept a tie in push order
C13_MovedAndTied ==
  /\ prs = "Returned"
  /\ \E i, j \in 1..Len(processed) :
       /\ i < j
       /\ processed[i].createdAt > processed[j].createdAt
       /\ PushedAt(processed[i]) > PushedAt(processed[j])
  /\ \E i, j \in 1..Len(processed) :
       /\ i < j
       /\ processed[i].createdAt = processed[j].createdAt
       /\ processed[i].type # processed[j].type

\* the state of the raw review with this id
RawStateOf(id) ==
  LET r == CHOOSE k \in 1..Len(rawData.reviews) : rawData.reviews[k].id = id
  IN rawData.reviews[r].state

(* C14: an entity is resolved exactly when it is a review whose state is   *)
(* APPROVED or DISMISSED; review comments and issue comments are never     *)
(* resolved, whatever replies they have.                                   *)
C14_ResolvedIffTerminalReview ==
  prs = "Returned" =>
    \A i \in 1..Len(processed) :
      \E e \in {processed[i]} :
        IF e.type = "review"
        THEN e.isResolved <=> RawStateOf(e.id) \in {"APPROVED", "DISMISSED"}
        ELSE ~e.isResolved

\* a dismissed review is resolved next to an answered thread that is not
C14_DismissedResolved ==
  /\ prs = "Returned"
  /\ \E i \in 1..Len(processed) :
       /\ processed[i].type = "review"
       /\ RawStateOf(processed[i].id) = "DISMISSED"
       /\ processed[i].isResolved
  /\ \E i \in 1..Len(processed) :
       /\ processed[i].type = "review_comment"
       /\ processed[i].hasHumanReply
       /\ ~processed[i].isResolved

(* C15: of a review comment entity hasAnyReply holds exactly when it has   *)
(* replies and hasHumanReply exactly when one of its replies is by an      *)
(* author that is no bot; issue comments and reviews have no replies and   *)
(* neither flag.                                                           *)
C15_ReplyFlags ==
  prs = "Returned" =>
    \A i \in 1..Len(processed) :
      \E e \in {processed[i]} :
        IF e.type = "review_comment"
        THEN /\ e.hasAnyReply <=> e.replies # <<>>
             /\ e.hasHumanReply <=>
                  \E k \in 1..Len(e.replies) : ~isBot(e.replies[k].user)
             /\ e.hasHumanReply => e.hasAnyReply
        ELSE e.replies = <<>> /\ ~e.hasAnyReply /\ ~e.hasHumanReply

\* a thread answered by a bot alone
C15_BotReplyOnly ==
  /\ prs = "Returned"
  /\ \E i \in 1..Len(processed) :
       /\ processed[i].type = "review_comment"
       /\ processed[i].replies # <<>>
       /\ processed[i].hasAnyReply
       /\ ~processed[i].hasHumanReply

\* the raw items that can become entities, with their type: thread roots,
\* issue comments and reviews
RawCandidates ==
  LET IsRoot(c) == c.in_reply_to_id = 0
      roots == SelectSeq(rawData.reviewComments, IsRoot)
  IN [k \in 1..Len(roots) |->
        [type |-> "review_comment", id |-> roots[k].id,
         user |-> roots[k].user, body |-> roots[k].body]]
     \o [k \in 1..Len(rawData.issueComments) |->
           [type |-> "issue_comment", id |-> rawData.issueComments[k].id,
            user |-> rawData.issueComments[k].user,
            body |-> rawData.issueComments[k].body]]
     \o [k \in 1..Len(rawData.reviews) |->
           [type |-> "review", id |-> rawData.reviews[k].id,
            user |-> rawData.reviews[k].user, body |-> rawData.reviews[k].body]]

\* a predicate in force matches author and body, and the body is there and
\* not empty
MetaMatch(x) ==
  /\ x.body # Null
  /\ x.body # <<>>
  /\ \E k \in 1..Len(metaInForce) :
       /\ x.user = metaInForce[k].user
       /\ Len(metaInForce[k].prefix) <= Len(x.body)
       /\ \A j \in 1..Len(metaInForce[k].prefix) :
            x.body[j] = metaInForce[k].prefix[j]

EmittedAs(x) ==
  \E i \in 1..Len(processed) :
    processed[i].type = x.type /\ processed[i].id = x.id

\* the body is missing, empty or white space
OnlyWhiteSpace(body) ==
  body = Null \/ \A j \in 1..Len(body) : body[j] \in WhiteSpace

(* C16, as stated: a thread root, issue comment or review that a meta      *)
(* predicate in force matches is not emitted, one that no predicate        *)
(* matches is emitted, and an empty body is never taken for meta.          *)
C16_MetaDroppedOthersKept ==
  prs = "Returned" =>
    \A k \in 1..Len(RawCandidates) :
      \E x \in {RawCandidates[k]} :
        EmittedAs(x) <=> ~MetaMatch(x)

(* C16, amended: a thread root, issue comment or review that a meta        *)
(* predicate in force matches is not emitted; one that no predicate        *)
(* matches, or whose body is empty, is emitted unless it is a review whose *)
(* body is empty or white space only.                                      *)
C16_MetaDroppedSubstantiveKept ==
  prs = "Returned" =>
    \A k \in 1..Len(RawCandidates) :
      \E x \in {RawCandidates[k]} :
        EmittedAs(x) <=>
          /\ ~MetaMatch(x)
          /\ ~(x.type = "review" /\ OnlyWhiteSpace(x.body))

\* a bot's status comment is dropped and the same bot's finding kept, while
\* a review of white space, which no predicate matches, is dropped too
C16_MetaAndBlankDropped ==
  /\ prs = "Returned"
  /\ \E k, l, n \in 1..Len(RawCandidates) :
       /\ MetaMatch(RawCandidates[k]) /\ ~EmittedAs(RawCandidates[k])
       /\ RawCandidates[l].user = RawCandidates[k].user
       /\ ~MetaMatch(RawCandidates[l]) /\ EmittedAs(RawCandidates[l])
       /\ RawCandidates[n].type = "review"
       /\ ~MetaMatch(RawCandidates[n]) /\ ~EmittedAs(RawCandidates[n])

(* C27: no review whose body is missing, empty or white space is emitted, *)
(* whatever its state; every other review that is not a meta comment is   *)
(* emitted, once, as an entity of type "review".                           *)
C27_BlankReviewsDropped ==
  prs = "Returned" =>
    \A k \in 1..Len(rawData.reviews) :
      \E r \in {rawData.reviews[k]} :
        \E n \in {Cardinality({i \in 1..Len(processed) :
                                 /\ processed[i].type = "review"
                                 /\ processed[i].id = r.id})} :
          /\ OnlyWhiteSpace(r.body) => n = 0
          /\ ~OnlyWhiteSpace(r.body)
               /\ ~MetaMatch([user |-> r.user, body |-> r.body]) => n = 1

\* an approving review of white space, no meta comment, is left out
C27_ApprovalWithoutText ==
  /\ prs = "Returned"
  /\ metaInForce = DEFAULT_META_FILTERS
  /\ \E k \in 1..Len(rawData.reviews) :
       /\ rawData.reviews[k].state = "APPROVED"
       /\ rawData.reviews[k].body = <<" ">>
       /\ \A i \in 1..Len(processed) : processed[i].type # "review"
  /\ processed # <<>>

----------------------------------------------------------------------------
(* filterComments: C17 to C19 *)

\* the array filterComments returned
Returned == arrays[filterResult]

\* the entities of the input that are in s, in input order
InputOrderOf(s) ==
  LET In(c) == \E k \in 1..Len(s) : s[k] = c IN SelectSeq(given, In)

\* what the actor filter lets through: botsOnly is looked at first
PassesActor(c) ==
  IF filterOptions.botsOnly THEN c.isBot
  ELSE IF filterOptions.humansOnly THEN ~c.isBot
  ELSE TRUE

\* what the state filter lets through
PassesState(c) ==
  IF filterOptions.filter = "unresolved" THEN ~(c.isResolved \/ c.hasHumanReply)
  ELSE IF filterOptions.filter = "unanswered" THEN ~c.hasAnyReply
  ELSE TRUE

(* C17: of the entities the actor filter lets through, filterComments      *)
(* returns under "unresolved" exactly those neither resolved nor answered  *)
(* by a human, under "unanswered" exactly those without a reply, otherwise *)
(* all, in input order; nothing resolved or answered by a human is         *)
(* returned under "unresolved".                                            *)
C17_StateFilter ==
  fls = "Returned" =>
    /\ Returned = InputOrderOf(Returned)
    /\ \A k \in 1..Len(given) :
         (\E i \in 1..Len(Returned) : Returned[i] = given[k])
           <=> (PassesActor(given[k]) /\ PassesState(given[k]))
    /\ filterOptions.filter = "unresolved" =>
         \A i \in 1..Len(Returned) :
           ~Returned[i].isResolved /\ ~Returned[i].hasHumanReply

\* "unresolved" dropped an entity answered by a human and kept another
C17_AnsweredDropped ==
  /\ fls = "Returned"
  /\ filterOptions.filter = "unresolved"
  /\ ~filterOptions.botsOnly /\ ~filterOptions.humansOnly
  /\ Len(Returned) = 1
  /\ \E k \in 1..Len(given) :
       /\ given[k].hasHumanReply /\ ~given[k].isResolved
       /\ \A i \in 1..Len(Returned) : Returned[i] # given[k]

(* C18: without a state filter, botsOnly returns exactly the entities      *)
(* whose isBot is set and humansOnly alone exactly those whose isBot is    *)
(* not set; with both set, under any state filter, the result is the one   *)
(* botsOnly alone gives.                                                   *)
C18_ActorFilter ==
  fls = "Returned" =>
    /\ filterOptions.filter = "null" /\ filterOptions.botsOnly =>
         \A k \in 1..Len(given) :
           (\E i \in 1..Len(Returned) : Returned[i] = given[k]) <=> given[k].isBot
    /\ filterOptions.filter = "null" /\ filterOptions.humansOnly
         /\ ~filterOptions.botsOnly =>
         \A k \in 1..Len(given) :
           (\E i \in 1..Len(Returned) : Returned[i] = given[k]) <=> ~given[k].isBot
    /\ filterOptions.botsOnly /\ filterOptions.humansOnly =>
         /\ \A i \in 1..Len(Returned) : Returned[i].isBot
         /\ \A k \in 1..Len(given) :
              given[k].isBot /\ PassesState(given[k])
                => \E i \in 1..Len(Returned) : Returned[i] = given[k]

\* both actor options set: the bot's entity is returned, the human's is not
C18_BothSetBotsKept ==
  /\ fls = "Returned"
  /\ filterOptions.botsOnly /\ filterOptions.humansOnly
  /\ Len(given) = 2
  /\ Len(Returned) = 1
  /\ Returned[1].isBot

(* C19: filterComments leaves its input array and the entities in it as    *)
(* they were and returns an array other than the input array, whose        *)
(* entities are entities of the input in input order; so with every        *)
(* option, and with none.  The code returns the input array itself when    *)
(* no option is set.                                                       *)
C19_NewArray ==
  fls = "Returned" =>
    /\ arrays[commentsRef] = given
    /\ filterResult # commentsRef
    /\ Returned = InputOrderOf(Returned)

(* C20: cleanBody is idempotent: applied to its own result it returns that *)
(* result.  The code does not see to it: a comment removed from inside     *)
(* "<!-" ... "--->" leaves "<!---->", which the next application removes.  *)
C20_Idempotent == cls = "Twice" => cleanedTwice = cleanedOnce


----------------------------------------------------------------------------
(* cleanBody on texts without boilerplate: C21 *)

\* one of the three boilerplate expressions matches somewhere in s
HasMarker(s) ==
  \E i \in 1..Len(s) :
    \E pattern \in {"htmlComment", "details", "cursorParagraph"} :
      MatchEnd(pattern, s, i) # 0

\* s without the white space at its two ends
Stripped(s) ==
  LET Cuts == {c \in (1..(Len(s) + 1)) \X (0..Len(s)) :
                 /\ c[1] <= c[2] + 1
                 /\ \A i \in 1..(c[1] - 1) : s[i] \in WhiteSpace
                 /\ \A i \in (c[2] + 1)..Len(s) : s[i] \in WhiteSpace
                 /\ c[1] <= c[2] => s[c[1]] \notin WhiteSpace /\ s[c[2]] \notin WhiteSpace}
      cut == CHOOSE c \in Cuts : TRUE
  IN SubSeq(s, cut[1], cut[2])

\* s without every newline that follows two newlines
Squeezed(s) ==
  LET Kept == {i \in 1..Len(s) :
                 ~(i >= 3 /\ s[i] = "\n" /\ s[i - 1] = "\n" /\ s[i - 2] = "\n")}
      Nth(k) == CHOOSE i \in Kept : Cardinality({j \in Kept : j <= i}) = k
  IN [k \in 1..Cardinality(Kept) |-> s[Nth(k)]]

(* C21, as stated: a text without boilerplate comes back unchanged but for *)
(* the white space trimmed off its ends; null and the empty text come back *)
(* as they are.                                                            *)
C21_OnlyTrimmed ==
  cls # "Input" =>
    IF Falsy(cleanInput) THEN cleanedOnce = cleanInput
    ELSE ~HasMarker(cleanInput) => cleanedOnce = Stripped(cleanInput)

(* C21, amended: a text without boilerplate comes back with every run of   *)
(* three or more newlines cut to two and the white space trimmed off its   *)
(* ends, and is otherwise unchanged; null and the empty text come back as  *)
(* they are.                                                               *)
C21_SqueezedAndTrimmed ==
  cls # "Input" =>
    IF Falsy(cleanInput) THEN cleanedOnce = cleanInput
    ELSE ~HasMarker(cleanInput) => cleanedOnce = Stripped(Squeezed(cleanInput))

\* a text without boilerplate lost a newline between its ends
C21_NewlinesCollapsed ==
  /\ cls = "Once"
  /\ ~Falsy(cleanInput)
  /\ ~HasMarker(cleanInput)
  /\ cleanedOnce # Stripped(cleanInput)

----------------------------------------------------------------------------
(* isBot: C23 *)

\* part occurs in name, letter for letter
Occurs(part, name) ==
  \E i \in 1..(Len(name) - Len(part) + 1) :
    \A k \in 1..Len(part) : name[i + k - 1] = part[k]

\* name ends with part
EndsIn(part, name) ==
  /\ Len(part) <= Len(name)
  /\ \A k \in 1..Len(part) : name[Len(name) - Len(part) + k] = part[k]

(* C23: isBot holds of a name exactly when the name ends with "[bot]", is  *)
(* "Copilot", is "github-actions" or holds "bot" in lower case; it does    *)
(* not hold of any other name nor of a missing or empty one.               *)
C23_IsBotExactly ==
  bts = "Returned" =>
    (isBotResult <=>
       /\ username # Null
       /\ username # <<>>
       /\ \/ EndsIn(<<"[","b","o","t","]">>, username)
          \/ username = <<"C","o","p","i","l","o","t">>
          \/ username = <<"g","i","t","h","u","b","-","a","c","t","i","o","n","s">>
          \/ Occurs(<<"b","o","t">>, username))

\* a name that holds "Bot" with a capital and is not taken for a bot
C23_CapitalBotIsHuman ==
  /\ bts = "Returned"
  /\ username # Null
  /\ Occurs(<<"B","o","t">>, username)
  /\ ~isBotResult

----------------------------------------------------------------------------
(* main: C22                                                               *)

\* no pull request number was given and none can be found for the branch
NoPullRequest(i) == ~i.prNumber /\ (~i.branch \/ i.lookup = "none")

(* C22: without a credential, a repository or a pull request the command   *)
(* line exits with a non-zero status before any network call is issued.    *)
C22_ExitsBeforeNetwork ==
  (mpc # "Start" /\ (MissingConfiguration(mainInput) \/ NoPullRequest(mainInput)))
    => mpc = "Exited" /\ exitCode # 0 /\ netCalls = <<>>

(* C22, amended: unless the version or the help is asked for, without a    *)
(* credential or a repository, or without a pull request number and a      *)
(* current branch, the command line exits with status 1 before any network *)
(* call; with a branch that has no open pull request it exits with         *)
(* status 1 after the one request that looks the pull request up.          *)
C22_ExitsOnMissingConfiguration ==
  (mpc # "Start" /\ ~mainInput.version /\ ~mainInput.help) =>
    /\ (\/ ~mainInput.token
        \/ ~mainInput.repoInfo
        \/ ~mainInput.prNumber /\ ~mainInput.branch)
         => mpc = "Exited" /\ exitCode = 1 /\ netCalls = <<>>
    /\ (/\ mainInput.token /\ mainInput.repoInfo
        /\ ~mainInput.prNumber /\ mainInput.branch
        /\ mainInput.lookup = "none")
         => /\ netCalls = <<"findPRForBranch">>
            /\ mpc \in {"FindingPR", "Exited"}
            /\ mpc = "Exited" => exitCode = 1

\* the branch has no open pull request: exit 1 once the lookup has answered
C22_NoOpenPullRequest ==
  /\ mpc = "Exited"
  /\ exitCode = 1
  /\ ~mainInput.version /\ ~mainInput.help
  /\ mainInput.token /\ mainInput.repoInfo
  /\ ~mainInput.prNumber /\ mainInput.branch
  /\ mainInput.lookup = "none"
  /\ netCalls = <<"findPRForBranch">>

----------------------------------------------------------------------------
(* fetchPRComments: C26                                                    *)

\* the requests a call has been answered
AnsweredPages(f) == IF f.st = "Requesting" THEN f.page - 1 ELSE f.page

(* C26: the three fetches are issued together and fetchPRComments returns  *)
(* only when all three are done; however the responses interleave, every   *)
(* call gathers the pages of its own endpoint in the order of the chain    *)
(* and each returned collection is the whole chain of its endpoint; when   *)
(* one of the three fails the call throws and returns no collection.       *)
C26_JoinsAllOrFails ==
  /\ jst # "Called" => \A e \in Endpoints : fetchers[e].st # "Idle"
  /\ \A e \in Endpoints :
       /\ fetchers[e].st = "Failed" =>
            fetchers[e].results = PagesUpTo(e, fetchers[e].page - 1)
       /\ fetchers[e].st # "Failed" =>
            fetchers[e].results = PagesUpTo(e, AnsweredPages(fetchers[e]))
  /\ jst = "Returned" <=>
       (jst # "Called" /\ \A e \in Endpoints : fetchers[e].st = "Done")
  /\ jst = "Returned" =>
       \A e \in Endpoints : joined[e] = PagesUpTo(e, endpoints[e].pages)
  /\ jst = "Thrown" <=> \E e \in Endpoints : fetchers[e].st = "Failed"
  /\ jst # "Returned" => joined = NoCollections

\* the call returned the three whole chains, two of them of two pages
C26_ReturnedWholeChains ==
  /\ jst = "Returned"
  /\ endpoints["reviewComments"].pages = 2
  /\ endpoints["reviews"].pages = 2
  /\ joined["reviewComments"] = PagesUpTo("reviewComments", 2)
  /\ joined["issueComments"] = PagesUpTo("issueComments", 1)
  /\ joined["reviews"] = PagesUpTo("reviews", 2)

====
